---- MODULE Spec2Model ----
(***************************************************************************)
(* A model of the TamilPoet text pipeline: the Dictionary Substitution     *)
(* Stage (app.py), the Context Researcher and the Meaning Translator        *)
(* (openai_tamil_translator.py) and the orchestrating part of main()        *)
(* (app.py).                                                                *)
(*                                                                          *)
(* A Python str is a sequence of code points; every code point is written   *)
(* as a short ASCII name.  Numbers that Python holds as floats in [0,1]     *)
(* (confidence) are held as integer hundredths.                             *)
(***************************************************************************)
EXTENDS Integers, Sequences, FiniteSets, TLC

\* ------------------------------------------------------------------------
\* Bounds of the model
\* ------------------------------------------------------------------------

\* Longest input string of the Dictionary Substitution Stage specification.
MaxLen == 4

\* Most words of an input text of the Context Researcher specification.
MaxWords == 11

\* Most words of an input text of a pipeline run.
MaxRunWords == 2

\* ------------------------------------------------------------------------
\* Python str helpers
\* ------------------------------------------------------------------------

\* The characters str.split() treats as separators (the texts of the model
\* only hold the blank).
Whitespace == {" "}

\* The argument of word.strip(...) in replace_old_tamil_words.
AppPunctuation == {".", ",", "!", "?", ";", ":", "QUOTE", "(", ")", "[", "]", "{", "}"}

\* The argument of word.strip(...) in _fallback_meaning_based_translation:
\* the same set plus U+0F2D.
FallbackPunctuation == AppPunctuation \cup {"U0F2D"}

RECURSIVE SplitFrom(_, _, _)
SplitFrom(s, cur, acc) ==
    IF s = <<>>
    THEN IF cur = <<>> THEN acc ELSE Append(acc, cur)
    ELSE IF Head(s) \in Whitespace
         THEN SplitFrom(Tail(s), <<>>, IF cur = <<>> THEN acc ELSE Append(acc, cur))
         ELSE SplitFrom(Tail(s), Append(cur, Head(s)), acc)

\* str.split(): the maximal runs of non-whitespace, in order.
Split(s) == SplitFrom(s, <<>>, <<>>)

RECURSIVE Join(_)
\* ' '.join(words)
Join(ws) ==
    IF ws = <<>> THEN <<>>
    ELSE IF Len(ws) = 1 THEN ws[1]
    ELSE ws[1] \o <<" ">> \o Join(Tail(ws))

RECURSIVE LStrip(_, _)
LStrip(w, chars) ==
    IF w # <<>> /\ Head(w) \in chars THEN LStrip(Tail(w), chars) ELSE w

RECURSIVE RStrip(_, _)
RStrip(w, chars) ==
    IF w # <<>> /\ w[Len(w)] \in chars THEN RStrip(SubSeq(w, 1, Len(w) - 1), chars) ELSE w

\* str.strip(chars): drop leading and trailing characters of the set.
Strip(w, chars) == RStrip(LStrip(w, chars), chars)

\* word[n:]
SliceFrom(w, n) == SubSeq(w, n + 1, Len(w))

\* ------------------------------------------------------------------------
\* Dictionary Substitution Stage (app.py, replace_old_tamil_words)
\* ------------------------------------------------------------------------

\* One iteration of the loop of replace_old_tamil_words: the token appended
\* to replaced_words for `word`.
ReplaceWordDropUnmapped(word, lex) ==
    LET clean_word == Strip(word, AppPunctuation)
        punctuation == SliceFrom(word, Len(clean_word))
    IN  IF clean_word \in DOMAIN lex
        THEN lex[clean_word] \o punctuation
        ELSE <<>>

ReplaceWord(word, lex) ==
    LET clean_word == Strip(word, AppPunctuation)
        punctuation == SliceFrom(word, Len(clean_word))
    IN  IF clean_word \in DOMAIN lex
        THEN lex[clean_word] \o punctuation
        ELSE word

\* replace_old_tamil_words(text) with TAMIL_WORD_MAPPING = lex.
replace_old_tamil_words(text, lex) ==
    LET words == Split(text)
    IN  Join([i \in 1..Len(words) |-> ReplaceWord(words[i], lex)])

\* ------------------------------------------------------------------------
\* Tamil script
\* ------------------------------------------------------------------------

\* Code points of category Lo in U+0B80..U+0BFF used by the rules of app.py
\* (Python's \w matches them).
TamilLetters == {"a", "u", "ka", "ca", "tta", "nna", "ta", "nha", "nnna", "pa",
                 "ma", "ya", "la", "va", "zha", "lla", "rra"}

\* Combining signs of the same block (categories Mn and Mc: Python's \w does
\* not match them): the virama and the vowel signs aa, u, e, ee, oo.
TamilSigns == {"VIRAMA", "sAA", "sU", "sE", "sEE", "sOO"}

\* The class [U+0B80-U+0BFF] of extract_key_terms_from_tamil_text.
TamilBlock == TamilLetters \cup TamilSigns

RECURSIVE RunsFrom(_, _, _, _)
RunsFrom(s, class, cur, acc) ==
    IF s = <<>>
    THEN IF cur = <<>> THEN acc ELSE Append(acc, cur)
    ELSE IF Head(s) \in class
         THEN RunsFrom(Tail(s), class, Append(cur, Head(s)), acc)
         ELSE RunsFrom(Tail(s), class, <<>>, IF cur = <<>> THEN acc ELSE Append(acc, cur))

\* re.findall(r'[class]+', s): the maximal runs of characters of the class.
FindRuns(s, class) == RunsFrom(s, class, <<>>, <<>>)

\* seq[:n]
Take(seq, n) == SubSeq(seq, 1, IF Len(seq) < n THEN Len(seq) ELSE n)

\* A key term is a run of more than this many code points.
KeyTermMinLen == 2
\* At most this many key terms are returned.
KeyTermLimit == 5

\* extract_key_terms_from_tamil_text(text)
extract_key_terms_from_tamil_text(text) ==
    LET words == FindRuns(text, TamilBlock)
        key_terms == SelectSeq(words, LAMBDA w : Len(w) > KeyTermMinLen)
    IN  Take(key_terms, KeyTermLimit)

\* ------------------------------------------------------------------------
\* Context Researcher (openai_tamil_translator.py)
\* ------------------------------------------------------------------------

\* theme_keywords, in the order of the source list.
theme_keywords == <<"love", "war", "devotion", "nature", "heroism",
                    "spirituality", "ethics", "philosophy">>

\* At most this many found themes are kept (found_themes[:4]).
ThemeLimit == 4

\* A text of more than this many words is "substantial".
SubstantialWords == 10

\* str.title() of the phrases the period regex can match.
Title(phrase) ==
    CASE phrase = "3rd century" -> "3Rd Century"
      [] phrase = "sangam period" -> "Sangam Period"
      [] phrase = "chola period" -> "Chola Period"
      [] OTHER -> "Medieval Tamil"

\* The fixed texts the researcher writes into a ContextInfo.
CtxFromSearch == "This appears to be from classical Tamil literature."
CtxSubstantial == "This appears to be a substantial classical Tamil text."
CtxShort == "Short classical Tamil text, possibly a verse or poetic line."
CtxBoilerplate == "Classical Tamil poetry text with traditional linguistic patterns."
MeaningFromSearch == "<first meaningful sentence>..."
MeaningBoilerplate == "This appears to be a classical Tamil poetic composition."
SignificanceFromSearch == "This text appears to be from a significant work."
SignificanceBoilerplate == "Represents the rich tradition of Tamil literature."
DefaultPeriod == "Classical Tamil period"

\* _fallback_classical_context(): the "classical defaults" constant.
_fallback_classical_context ==
    [context |-> "Classical Tamil literature encompasses works from the Sangam period.",
     period |-> "Classical Tamil period (Sangam era to Medieval)",
     themes |-> <<"devotion", "nature", "love", "heroism", "philosophy", "ethics">>,
     meaning |-> "This text represents classical Tamil poetic tradition.",
     literary_significance |-> "Tamil classical literature is among the world's oldest."]

\* _ensure_complete_context(context_info): the dictionary after the call.
EnsureNoThemes(c) ==
    [c EXCEPT !.context = IF @ = "" THEN CtxBoilerplate ELSE @,
              !.meaning = IF @ = "" THEN MeaningBoilerplate ELSE @,
              !.literary_significance = IF @ = "" THEN SignificanceBoilerplate ELSE @]

_ensure_complete_context(c) ==
    [c EXCEPT !.context = IF @ = "" THEN CtxBoilerplate ELSE @,
              !.meaning = IF @ = "" THEN MeaningBoilerplate ELSE @,
              !.literary_significance = IF @ = "" THEN SignificanceBoilerplate ELSE @,
              !.themes = IF @ = <<>> THEN <<"classical poetry", "tamil literature">> ELSE @]

\* What research_classical_tamil_context reads of the joined search results
\* (all_content): whether a context keyword occurs, whether a period keyword
\* occurs and which phrase the period regex matches ("" for none), the theme
\* keywords that occur, whether it is longer than 100 characters, whether it
\* has a sentence of more than 50 characters containing 'tamil', and whether a
\* significance keyword occurs.
\* search_results is [kind, content]: kind "none" (the argument is absent),
\* "empty" (an empty list), "notlist" (a truthy value that is no list),
\* "falsy" (a list of falsy items: all_content is empty), "raises" (a list
\* whose item raises in str()), "content" (a list that joins to `content`).

\* The dictionary after the "if search_results and isinstance(...)" block
\* (lines 305-343) for all_content = content.
AnalyzeSearch(ctx, content) ==
    LET found_themes == SelectSeq(theme_keywords, LAMBDA t : t \in content.themes)
    IN  [context |-> IF content.ctx_kw THEN CtxFromSearch ELSE ctx.context,
         period |-> IF content.period_kw /\ content.period_phrase # ""
                    THEN Title(content.period_phrase) ELSE ctx.period,
         themes |-> IF found_themes # <<>> THEN Take(found_themes, ThemeLimit)
                    ELSE <<"classical poetry", "literary expression">>,
         meaning |-> IF content.long /\ content.meaningful
                     THEN MeaningFromSearch ELSE ctx.meaning,
         literary_significance |-> IF content.sig_kw THEN SignificanceFromSearch
                                   ELSE ctx.literary_significance]

\* The text heuristic of lines 346-353.
TextHeuristic(ctx, text) ==
    IF extract_key_terms_from_tamil_text(text) # <<>>
    THEN [ctx EXCEPT !.context = IF Len(Split(text)) > SubstantialWords
                                 THEN CtxSubstantial ELSE CtxShort]
    ELSE ctx

\* research_classical_tamil_context(text, search_results)
research_classical_tamil_context(text, sr) ==
    LET initial == [context |-> "", period |-> DefaultPeriod, themes |-> <<>>,
                    meaning |-> "", literary_significance |-> ""]
        searched == IF sr.kind = "content" THEN AnalyzeSearch(initial, sr.content)
                    ELSE initial
    IN  IF sr.kind = "raises"
        THEN _fallback_classical_context
        ELSE _ensure_complete_context(TextHeuristic(searched, text))

\* ------------------------------------------------------------------------
\* Phonetic/Sandhi Normalizer (app.py, preprocess_classical_tamil)
\* ------------------------------------------------------------------------

RECURSIVE ReplaceAll(_, _, _)
\* re.sub(pattern, replacement, s) for a pattern without metacharacters (and
\* str.replace): the leftmost non-overlapping occurrences are replaced.
ReplaceAll(s, pat, rep) ==
    IF Len(s) < Len(pat) THEN s
    ELSE IF SubSeq(s, 1, Len(pat)) = pat
         THEN rep \o ReplaceAll(SubSeq(s, Len(pat) + 1, Len(s)), pat, rep)
         ELSE <<Head(s)>> \o ReplaceAll(Tail(s), pat, rep)

\* sandhi_patterns, in the order of the source dictionary: <<pattern, replacement>>.
sandhi_patterns ==
    << << <<"ta", "la", "VIRAMA", "la", "sU", "ma", "VIRAMA">>,
          <<"ta", "sAA", "nnna", "VIRAMA", " ", "a", "la", "VIRAMA", "la", "sU", "ma", "VIRAMA">> >>,
       << <<"ka", "nna", "VIRAMA", "tta", "sU", "ma", "VIRAMA">>,
          <<"ka", "nna", "VIRAMA", "tta", "sU", " ", "u", "ma", "VIRAMA">> >>,
       << <<"ca", "sE", "ya", "VIRAMA", "ta", "sU", "ma", "VIRAMA">>,
          <<"ca", "sE", "ya", "VIRAMA", "ta", "sU", " ", "u", "ma", "VIRAMA">> >>,
       << <<"va", "nha", "VIRAMA", "ta", "sU", "ma", "VIRAMA">>,
          <<"va", "nha", "VIRAMA", "ta", "sU", " ", "u", "ma", "VIRAMA">> >>,
       << <<"pa", "sOO", "nnna", "sU", "ma", "VIRAMA">>,
          <<"pa", "sOO", "nnna", " ", "u", "ma", "VIRAMA">> >> >>

\* phonetic_normalizations, in the order of the source dictionary.
phonetic_normalizations ==
    << << <<"zha", "VIRAMA">>, <<"lla", "VIRAMA">> >>,
       << <<"rra", "VIRAMA", "rra">>, <<"tta", "VIRAMA", "tta">> >>,
       << <<"nnna", "VIRAMA", "nnna">>, <<"nna", "VIRAMA", "nna">> >> >>

\* classical_verb_patterns, in the order of the source dictionary:
\* <<suffix, replacement>> for r'(\w+)suffix$' -> r'\1replacement'.
classical_verb_patterns ==
    << << <<"sU", "ma", "sEE">>, <<"sU", "ma", "VIRAMA">> >>,
       << <<"va", "sEE">>, <<"va", "ta", "sU">> >>,
       << <<"ta", "sEE">>, <<"ta", "ta", "sEE">> >> >>

\* The characters Python's \w matches among the code points of the model.
WordChars == TamilLetters \cup {"U0F2D"}

RECURSIVE ApplyRules(_, _)
\* for pattern, replacement in rules.items(): text = re.sub(pattern, replacement, text)
ApplyRules(s, rules) ==
    IF rules = <<>> THEN s
    ELSE ApplyRules(ReplaceAll(s, Head(rules)[1], Head(rules)[2]), Tail(rules))

\* The rule without its anchors: the suffix is rewritten wherever it occurs.
SuffixRuleUnanchored(word, suffix, replacement) == ReplaceAll(word, suffix, replacement)

\* re.sub(r'(\w+)suffix$', r'\1replacement', word): the word must end with
\* the suffix and have a \w character right before it.
SuffixRule(word, suffix, replacement) ==
    LET j == Len(word) - Len(suffix)
    IN  IF j >= 1 /\ SubSeq(word, j + 1, Len(word)) = suffix /\ word[j] \in WordChars
        THEN SubSeq(word, 1, j) \o replacement
        ELSE word

RECURSIVE ApplySuffixRules(_, _)
ApplySuffixRules(word, rules) ==
    IF rules = <<>> THEN word
    ELSE ApplySuffixRules(SuffixRule(word, Head(rules)[1], Head(rules)[2]), Tail(rules))

\* Lines 15-28: the text after the virama normalization and the sandhi pass.
SandhiPass(text) ==
    ApplyRules(ReplaceAll(text, <<"VIRAMA">>, <<"VIRAMA">>), sandhi_patterns)

\* preprocess_classical_tamil(text)
preprocess_classical_tamil(text) ==
    LET sandhi == SandhiPass(text)
        phonetic == ApplyRules(sandhi, phonetic_normalizations)
        words == Split(phonetic)
    IN  Join([i \in 1..Len(words) |-> ApplySuffixRules(words[i], classical_verb_patterns)])

\* ------------------------------------------------------------------------
\* Python values of the translator
\* ------------------------------------------------------------------------

\* A value where a str is expected: a str, a value of another type (None, a
\* number, a list), or "absent"/"unset" for a missing key / unassigned name.
StrVal(s) == [t |-> "str", s |-> s]
OtherText == [t |-> "other", s |-> <<>>]
AbsentText == [t |-> "absent", s |-> <<>>]
UnsetText == [t |-> "unset", s |-> <<>>]

\* A value where a number is expected (hundredths), or a value of another type.
NumVal(n) == [t |-> "num", n |-> n]
OtherNum == [t |-> "other", n |-> 0]
AbsentNum == [t |-> "absent", n |-> 0]

\* A value where a list of strings is expected, or a value of another type.
ListVal(items) == [t |-> "list", items |-> items]
OtherList == [t |-> "other", items |-> <<>>]
AbsentList == [t |-> "absent", items |-> <<>>]

\* A context_info: None, the empty dict, or a ContextInfo dict.
BlankContext ==
    [context |-> "", period |-> "", themes |-> <<>>, meaning |-> "",
     literary_significance |-> ""]
NoneCtx == [t |-> "none", v |-> BlankContext]
EmptyDictCtx == [t |-> "empty", v |-> BlankContext]
DictCtx(c) == [t |-> "dict", v |-> c]

\* research_classical_tamil_context(text): search_results left at its default.
NoContent ==
    [ctx_kw |-> FALSE, period_kw |-> FALSE, period_phrase |-> "", themes |-> {},
     long |-> FALSE, meaningful |-> FALSE, sig_kw |-> FALSE]

NoSearch == [kind |-> "none", content |-> NoContent]

\* ------------------------------------------------------------------------
\* Meaning Translator (openai_tamil_translator.py)
\* ------------------------------------------------------------------------

\* Hardcoded confidences, in hundredths.
DefaultAIConfidence == 80
ContextFallbackConfidence == 60
MinimalFallbackConfidence == 30
EmergencyFallbackConfidence == 10

\* The ways the language-model call of lines 76-93 can end: the request
\* raises, times out, returns empty content, content that is no JSON, JSON
\* that is no object, or a JSON object.
FailureKinds == {"raise", "timeout", "empty", "nonjson", "nonobject"}

\* The exception lines 76-98 raise for a reply ("" for none): the client's
\* error, the Exception of line 91, json.loads' JSONDecodeError, and the
\* AttributeError of ai_result.get on a value that is no dict.
ExceptionOfStrict(r) ==
    CASE r.kind = "raise" -> "APIError"
      [] r.kind = "timeout" -> "APITimeoutError"
      [] r.kind = "empty" -> "Exception"
      [] r.kind = "nonjson" -> "JSONDecodeError"
      [] r.kind = "nonobject" -> "AttributeError"
      [] r.modernized_text.t = "absent" \/ r.confidence.t = "absent" -> "KeyError"
      [] OTHER -> ""

ExceptionOf(r) ==
    CASE r.kind = "raise" -> "APIError"
      [] r.kind = "timeout" -> "APITimeoutError"
      [] r.kind = "empty" -> "Exception"
      [] r.kind = "nonjson" -> "JSONDecodeError"
      [] r.kind = "nonobject" -> "AttributeError"
      [] OTHER -> ""

\* Whether lines 76-105 raise for the reply.
ReplyFails(r) == ExceptionOf(r) # ""

\* "except Exception" (lines 109, 141, 148, 425) catches e: every exception
\* of the model is an Exception.
HandlerCatchesParseErrorsOnly(e) == e \in {"JSONDecodeError", "APIError", "APITimeoutError", "Exception"}

HandlerCatches(e) == TRUE

\* The dict built at lines 96-105 from a parsed reply.
AIResult(text, ctx, r) ==
    [original_text |-> text,
     modernized_text |-> IF r.modernized_text.t = "absent" THEN StrVal(text)
                         ELSE r.modernized_text,
     meaning_explanation |-> "reply or AI default",
     context_info |-> IF ctx.t = "dict" THEN ctx ELSE EmptyDictCtx,
     translation_method |-> "AI-powered with context",
     changes_made |-> IF r.changes_made.t = "absent" THEN ListVal(<<>>)
                      ELSE r.changes_made,
     confidence |-> IF r.confidence.t = "absent" THEN NumVal(DefaultAIConfidence)
                    ELSE r.confidence,
     literary_analysis |-> "reply or AI default"]

\* One iteration of the loop of lines 394-404: the token appended to
\* modernized_words.
FallbackReplaceWord(word, lex) ==
    LET clean_word == Strip(word, FallbackPunctuation)
        punctuation == SliceFrom(word, Len(clean_word))
    IN  IF clean_word \in DOMAIN lex
        THEN lex[clean_word] \o punctuation
        ELSE word

RECURSIVE FallbackModernizedWords(_, _)
\* modernized_words of lines 391-404.
FallbackModernizedWords(words, lex) ==
    IF words = <<>> THEN <<>>
    ELSE <<FallbackReplaceWord(Head(words), lex)>> \o FallbackModernizedWords(Tail(words), lex)

RECURSIVE FallbackChanges(_, _)
\* changes_made of lines 394-404: <<clean_word, modern_word>> stands for the
\* string "clean_word -> modern_word".
FallbackChanges(words, lex) ==
    IF words = <<>> THEN <<>>
    ELSE LET clean_word == Strip(Head(words), FallbackPunctuation)
             here == IF clean_word \in DOMAIN lex /\ lex[clean_word] # clean_word
                     THEN << <<clean_word, lex[clean_word]>> >> ELSE <<>>
         IN  here \o FallbackChanges(Tail(words), lex)

\* The dict returned at lines 414-423 (the generated meaning_explanation and
\* literary_analysis are not told apart).
ContextFallbackResultAsAI(text, ctx, lex) ==
    LET words == Split(text)
    IN  [original_text |-> text,
         modernized_text |-> StrVal(Join(FallbackModernizedWords(words, lex))),
         meaning_explanation |-> "generated from context",
         context_info |-> ctx,
         translation_method |-> "Context-based fallback",
         changes_made |-> ListVal(FallbackChanges(words, lex)),
         confidence |-> NumVal(DefaultAIConfidence),
         literary_analysis |-> "generated from context"]

ContextFallbackResult(text, ctx, lex) ==
    LET words == Split(text)
    IN  [original_text |-> text,
         modernized_text |-> StrVal(Join(FallbackModernizedWords(words, lex))),
         meaning_explanation |-> "generated from context",
         context_info |-> ctx,
         translation_method |-> "Context-based fallback",
         changes_made |-> ListVal(FallbackChanges(words, lex)),
         confidence |-> NumVal(ContextFallbackConfidence),
         literary_analysis |-> "generated from context"]

\* The dict returned at lines 427-436.
MinimalResult(text, ctx) ==
    [original_text |-> text,
     modernized_text |-> StrVal(text),
     meaning_explanation |-> "Translation service temporarily unavailable.",
     context_info |-> IF ctx.t = "dict" THEN ctx ELSE DictCtx(_fallback_classical_context),
     translation_method |-> "Minimal fallback",
     changes_made |-> ListVal(<<>>),
     confidence |-> NumVal(MinimalFallbackConfidence),
     literary_analysis |-> "Classical Tamil text with traditional poetic elements."]

\* The dict returned at lines 150-159.
EmergencyResult(text) ==
    [original_text |-> text,
     modernized_text |-> StrVal(text),
     meaning_explanation |-> "Translation system temporarily unavailable.",
     context_info |-> DictCtx(_fallback_classical_context),
     translation_method |-> "Emergency fallback",
     changes_made |-> ListVal(<<>>),
     confidence |-> NumVal(EmergencyFallbackConfidence),
     literary_analysis |-> "Classical Tamil text requiring expert interpretation."]

\* No result yet.
NoResult ==
    [original_text |-> <<>>,
     modernized_text |-> UnsetText,
     meaning_explanation |-> "",
     context_info |-> NoneCtx,
     translation_method |-> "",
     changes_made |-> ListVal(<<>>),
     confidence |-> AbsentNum,
     literary_analysis |-> ""]

\* ------------------------------------------------------------------------
\* State
\* ------------------------------------------------------------------------

\* One call of replace_old_tamil_words: its position, its argument, the
\* lexicon TAMIL_WORD_MAPPING and its return value.
VARIABLES sub_pc, sub_text, sub_lex, sub_out

\* One call of research_classical_tamil_context: its position, its two
\* arguments, its return value and whether it raised.
VARIABLES ctx_pc, ctx_text, ctx_sr, ctx_out, ctx_raised

\* One run of the pipeline.  The entry point (main of app.py, or a direct
\* call of get_comprehensive_translation or translate_classical_tamil_with_ai)
\* and the position in it:
VARIABLES entry, pc
\* main's inputs: the text area, the two selections, and TAMIL_WORD_MAPPING
\* with whether "from tamil_dictionary import ..." succeeds in the translator:
VARIABLES tamil_text, use_preprocessing, translation_mode, lexicon, lexicon_available
\* main's locals and st.session_state.ai_translation_info:
VARIABLES processed_text, translation_changes, session
\* the translator's arguments and locals, the reply of the language model,
\* the exception in flight ("" for none) and who called the fallback:
VARIABLES text, use_ai, use_web_research, context_info, reply, ai_result, exc, fb_caller
\* whether the entry point raised, and history: the tier that built
\* ai_result, the numbers of language-model requests and researcher calls and
\* the tiers attempted, in order.
VARIABLES raised, tier, llm_calls, research_calls, attempts
\* the replies the language model may give, the number of the run of main in
\* this session, and history: the inputs and the results of the first run.
VARIABLES llm_replies, run_no, first
\* whether the Context Researcher fails inside (an injected fault):
VARIABLE researcher_fails

\* One call of preprocess_classical_tamil followed by a second call on its
\* result: the position, the argument, the text after the sandhi pass of the
\* first call, and the two return values.
VARIABLES norm_pc, norm_text, norm_sandhi, norm_out, norm_again

\* One speech-synthesis request: the entry point (text_to_speech_tamil of
\* app.py or PremiumTTSService.generate_speech) and the position in it, the
\* provider the caller named, the text, whether the caller's keyword
\* arguments include voice_accent or slow, the collaborators' behaviour
\* during the request, the provider generate_speech is called with, the
\* exception in flight ("" for none), the value returned, the exception
\* raised to the caller ("" for none) and whether st.error was shown.
VARIABLES tts_entry, tts_pc, tts_requested, tts_text, tts_clash, tts_env,
          tts_provider, tts_exc, tts_out, tts_raised, tts_error_shown

\* The Lexicon Store: the rows of custom_dictionary, the database clock, the
\* number of operations made, the last operation with its arguments, the
\* fault injected into it and what it returned, and history: the rows before
\* the last operation and, by stored old_word, the old_word and modern_word
\* arguments of the most recent successful add.
VARIABLES db_store, db_clock, db_ops, db_last, db_prev, db_added

subVars == <<sub_pc, sub_text, sub_lex, sub_out>>
dbVars == <<db_store, db_clock, db_ops, db_last, db_prev, db_added>>
ttsArgs == <<tts_entry, tts_requested, tts_text, tts_clash, tts_env>>
ttsVars == <<ttsArgs, tts_pc, tts_provider, tts_exc, tts_out, tts_raised, tts_error_shown>>
normVars == <<norm_pc, norm_text, norm_sandhi, norm_out, norm_again>>
\* The operations outside the pipeline run and its two library calls.
otherVars == <<normVars, ttsVars, dbVars>>
ctxVars == <<ctx_pc, ctx_text, ctx_sr, ctx_out, ctx_raised>>
cfgVars == <<entry, tamil_text, use_preprocessing, translation_mode, lexicon, lexicon_available,
             llm_replies, researcher_fails>>
mainVars == <<processed_text, translation_changes, session>>
callVars == <<text, use_ai, use_web_research>>
runsVars == <<run_no, first>>
histVars == <<llm_calls, research_calls, attempts, runsVars>>
runVars == <<cfgVars, pc, mainVars, callVars, context_info, reply, ai_result, exc,
             fb_caller, raised, tier, histVars>>
vars == <<subVars, ctxVars, runVars, otherVars>>

\* The parts of the state a specification does not use stay as they are here.
SubIdle ==
    /\ sub_pc = "idle"
    /\ sub_text = <<>>
    /\ sub_lex = [k \in {} |-> <<>>]
    /\ sub_out = <<>>

NormIdle ==
    /\ norm_pc = "idle"
    /\ norm_text = <<>>
    /\ norm_sandhi = <<>>
    /\ norm_out = <<>>
    /\ norm_again = <<>>

\* Audio values: nothing assigned yet, None, or the bytes a provider made
\* of a text.
NoAudio == [kind |-> "unset", by |-> "", text |-> ""]
NoneAudio == [kind |-> "none", by |-> "", text |-> ""]
Audio(provider, t) == [kind |-> "bytes", by |-> provider, text |-> t]

TtsIdle ==
    /\ tts_entry = "none"
    /\ tts_pc = "idle"
    /\ tts_requested = ""
    /\ tts_text = ""
    /\ tts_clash = FALSE
    /\ tts_env = [cred |-> FALSE, http |-> "ok", gtts_ok |-> TRUE]
    /\ tts_provider = ""
    /\ tts_exc = ""
    /\ tts_out = NoAudio
    /\ tts_raised = ""
    /\ tts_error_shown = FALSE

\* The empty table.
NoRows == {}

\* What an operation of the store returned: a bool (add, delete), a dict
\* (load) or a list of rows (list, search); the parts it did not return are
\* left empty.
DbReturn(ok, map, rows) == [ok |-> ok, map |-> map, rows |-> rows]

NoOperation ==
    [op |-> "none", old_word |-> <<>>, modern_word |-> <<>>, description |-> <<>>,
     fault |-> "none", raised |-> FALSE, ret |-> DbReturn(FALSE, [k \in {} |-> <<>>], {})]

DbIdle ==
    /\ db_store = NoRows
    /\ db_clock = 0
    /\ db_ops = 0
    /\ db_last = NoOperation
    /\ db_prev = NoRows
    /\ db_added = [k \in {} |-> [old_word |-> <<>>, modern_word |-> <<>>]]

OtherIdle == NormIdle /\ TtsIdle /\ DbIdle

CtxIdle ==
    /\ ctx_pc = "idle"
    /\ ctx_text = <<>>
    /\ ctx_sr = NoSearch
    /\ ctx_out = _fallback_classical_context
    /\ ctx_raised = FALSE

NoReply ==
    [kind |-> "notcalled", modernized_text |-> AbsentText, changes_made |-> AbsentList,
     confidence |-> AbsentNum]

\* No run recorded.
NoRun == [key |-> <<>>, result |-> <<>>]

RunIdle ==
    /\ researcher_fails = FALSE
    /\ llm_replies = {}
    /\ run_no = 1
    /\ first = NoRun
    /\ entry = "none"
    /\ pc = "idle"
    /\ tamil_text = <<>>
    /\ use_preprocessing = FALSE
    /\ translation_mode = "none"
    /\ lexicon = [k \in {} |-> <<>>]
    /\ lexicon_available = TRUE
    /\ processed_text = UnsetText
    /\ translation_changes = ListVal(<<>>)
    /\ session = [present |-> FALSE, info |-> NoResult]
    /\ text = <<>>
    /\ use_ai = FALSE
    /\ use_web_research = FALSE
    /\ context_info = NoneCtx
    /\ reply = NoReply
    /\ ai_result = NoResult
    /\ exc = ""
    /\ fb_caller = ""
    /\ raised = FALSE
    /\ tier = "none"
    /\ llm_calls = 0
    /\ attempts = <<>>
    /\ research_calls = 0

\* ------------------------------------------------------------------------
\* Specification of the Dictionary Substitution Stage as a pure function:
\* the input text and the lexicon are drawn from bounded sets.
\* ------------------------------------------------------------------------

\* Code points of the substitution inputs: two letters, a trailing-style and
\* a leading-style punctuation mark, and the blank.
SubAlphabet == {"ka", "ma", ".", "(", " "}

RECURSIVE StringsUpTo(_, _)
StringsUpTo(alphabet, n) ==
    IF n = 0 THEN {<<>>}
    ELSE LET shorter == StringsUpTo(alphabet, n - 1)
         IN  shorter \cup {Append(s, c) : s \in {t \in shorter : Len(t) = n - 1}, c \in alphabet}

SubTexts == StringsUpTo(SubAlphabet, MaxLen)

\* Old words and modern words of the lexicons: a modern word may be one
\* token, several tokens, or empty.
LexKeys == {<<"ka">>, <<"ka", "ma">>}
LexValues == {<<"ma">>, <<"ma", " ", "ka">>, <<>>}
SingleTokenValues == {v \in LexValues : Len(Split(v)) = 1}

Lexicons == UNION {[K -> LexValues] : K \in SUBSET LexKeys}

SubInit ==
    /\ sub_pc = "call"
    /\ sub_text \in SubTexts
    /\ sub_lex \in Lexicons
    /\ sub_out = <<>>

Substitute ==
    /\ sub_pc = "call"
    /\ sub_out' = replace_old_tamil_words(sub_text, sub_lex)
    /\ sub_pc' = "done"
    /\ UNCHANGED <<sub_text, sub_lex>>

DictInit == SubInit /\ CtxIdle /\ RunIdle /\ OtherIdle

DictNext == Substitute /\ UNCHANGED <<ctxVars, runVars, otherVars>>

SpecDict == DictInit /\ [][DictNext]_vars

\* ------------------------------------------------------------------------
\* Specification of the Context Researcher as a function of its arguments:
\* the text and search_results are drawn from bounded sets.
\* ------------------------------------------------------------------------

\* Words of the researcher's input texts: a Tamil word long enough to be a
\* key term, a Tamil word too short to be one, and a word of no Tamil at all.
CtxWords == {<<"ka", "nna", "VIRAMA", "tta", "sU">>, <<"ta", "sEE">>, <<".", ".">>}

\* A text of n copies of one word.
Repeated(word, n) == Join([i \in 1..n |-> word])

CtxTexts == {Repeated(w, n) : w \in CtxWords, n \in 0..MaxWords}

\* Theme keywords that occur in the modelled search results: more than
\* ThemeLimit of them, so that found_themes[:4] cuts.
OccurringThemes == {"love", "war", "devotion", "nature", "philosophy"}

PeriodPhrases == {"", "3rd century", "sangam period"}

SearchContents ==
    [ctx_kw : BOOLEAN, period_kw : BOOLEAN, period_phrase : PeriodPhrases,
     themes : SUBSET OccurringThemes, long : BOOLEAN, meaningful : BOOLEAN,
     sig_kw : BOOLEAN]

SearchResults ==
    {[kind |-> k, content |-> NoContent] : k \in {"none", "empty", "notlist", "falsy", "raises"}}
    \cup {[kind |-> "content", content |-> c] : c \in SearchContents}

CtxInit ==
    /\ ctx_pc = "call"
    /\ ctx_text \in CtxTexts
    /\ ctx_sr \in SearchResults
    /\ ctx_out = _fallback_classical_context
    /\ ctx_raised = FALSE

\* One call research_classical_tamil_context(ctx_text, ctx_sr): the whole
\* body runs inside try/except Exception, so nothing is raised to the caller.
Research ==
    /\ ctx_pc = "call"
    /\ ctx_out' = research_classical_tamil_context(ctx_text, ctx_sr)
    /\ ctx_raised' = FALSE
    /\ ctx_pc' = "done"
    /\ UNCHANGED <<ctx_text, ctx_sr>>

ResearchInit == CtxInit /\ SubIdle /\ RunIdle /\ OtherIdle

ResearchNext == Research /\ UNCHANGED <<subVars, runVars, otherVars>>

SpecCtx == ResearchInit /\ [][ResearchNext]_vars

\* ------------------------------------------------------------------------
\* Claims about the Context Researcher
\* ------------------------------------------------------------------------

FieldsNonEmpty(c) ==
    /\ c.context # ""
    /\ c.period # ""
    /\ c.themes # <<>>
    /\ c.meaning # ""
    /\ c.literary_significance # ""

\* C9: for every text and every search_results argument (absent, empty or
\* any list) research_classical_tamil_context returns without raising a
\* ContextInfo whose five fields are all non-empty, and when an internal
\* failure occurs it returns the classical-defaults constant.
C9_ContextComplete ==
    ctx_pc = "done" =>
        /\ ~ctx_raised
        /\ FieldsNonEmpty(ctx_out)
        /\ (ctx_sr.kind = "raises" => ctx_out = _fallback_classical_context)

\* A call whose search results filled some fields and left the others to the
\* completion step, for a text with no key term.
C9_Witness ==
    /\ ctx_pc = "done"
    /\ ctx_sr.kind = "content"
    /\ ctx_sr.content.sig_kw
    /\ ~ctx_sr.content.ctx_kw
    /\ extract_key_terms_from_tamil_text(ctx_text) = <<>>
    /\ ctx_out.context = CtxBoilerplate
    /\ ctx_out.meaning = MeaningBoilerplate
    /\ ctx_out.literary_significance = SignificanceFromSearch

\* ------------------------------------------------------------------------
\* Specification of a pipeline run: main of app.py (lines 184-288), or a
\* direct call of get_comprehensive_translation or of
\* translate_classical_tamil_with_ai.
\* ------------------------------------------------------------------------

\* Words of the input texts: a fused compound of the sandhi list, an old
\* word of the lexicon in brackets, a punctuation mark alone, an old word
\* followed by U+0F2D, and a word no lexicon maps that carries an archaic
\* verb ending.
RunWords ==
    << <<"ka", "nna", "VIRAMA", "tta", "sU", "ma", "VIRAMA">>,
       <<"(", "ka", "ma", ")">>,
       <<".">>,
       <<"ka", "ma", "U0F2D">>,
       <<"va", "ta", "sEE">> >>

RECURSIVE WordSeqs(_, _)
\* The sequences of at most n positions of `words` that never step back: one
\* text for every choice of words, with repetition.
WordSeqs(words, n) ==
    IF n = 0 THEN {<<>>}
    ELSE LET shorter == WordSeqs(words, n - 1)
             longest == {x \in shorter : Len(x) = n - 1}
         IN  shorter \cup
             {Append(p[1], p[2]) :
                 p \in {q \in longest \X DOMAIN words :
                           q[1] = <<>> \/ q[1][Len(q[1])] <= q[2]}}

\* The empty text, a text of blanks only, and the texts of up to MaxRunWords words.
RunTexts ==
    {<<" ">>} \cup
    {Join([i \in DOMAIN ws |-> RunWords[ws[i]]]) : ws \in WordSeqs(RunWords, MaxRunWords)}

\* TAMIL_WORD_MAPPING: empty, or with one old word.
RunLexicons == {[k \in {} |-> <<>>], [k \in {<<"ka", "ma">>} |-> <<"ma", "ka">>]}

Modes == {"dictionary", "ai", "both"}

\* The context_info argument of a direct call of translate_classical_tamil_with_ai.
SuppliedContexts == {NoneCtx, EmptyDictCtx, DictCtx(_fallback_classical_context)}

\* Replies of the language model.
ReplyTexts ==
    {AbsentText, OtherText, StrVal(<<>>), StrVal(<<"ka", "nna", "VIRAMA", "tta", "sU">>)}
ReplyConfidences == {AbsentNum, OtherNum} \cup {NumVal(n) : n \in {-10, 20, 95, 150}}
ReplyChanges == {AbsentList, OtherList, ListVal(<< <<<<"ka", "ma">>, <<"ma", "ka">>>> >>)}

Replies ==
    {[kind |-> k, modernized_text |-> AbsentText, changes_made |-> AbsentList,
      confidence |-> AbsentNum] : k \in FailureKinds}
    \cup [kind : {"object"}, modernized_text : ReplyTexts, changes_made : ReplyChanges,
          confidence : ReplyConfidences]

RunInit ==
    /\ llm_replies = Replies
    /\ run_no = 1
    /\ first = NoRun
    /\ entry \in {"main", "gct", "tai"}
    /\ lexicon \in RunLexicons
    /\ processed_text = UnsetText
    /\ translation_changes = ListVal(<<>>)
    /\ session = [present |-> FALSE, info |-> NoResult]
    /\ reply = NoReply
    /\ ai_result = NoResult
    /\ exc = ""
    /\ fb_caller = ""
    /\ raised = FALSE
    /\ tier = "none"
    /\ llm_calls = 0
    /\ attempts = <<>>
    /\ research_calls = 0
    /\ \/ /\ entry = "main"
          /\ pc = "m_start"
          /\ tamil_text \in RunTexts
          /\ use_preprocessing \in BOOLEAN
          /\ translation_mode \in Modes
          \* app.py imports tamil_dictionary at line 6
          /\ lexicon_available = TRUE
          /\ researcher_fails = FALSE
          /\ text = <<>>
          /\ use_ai = FALSE
          /\ use_web_research = FALSE
          /\ context_info = NoneCtx
       \/ /\ entry = "gct"
          /\ pc = "gc_start"
          /\ text \in RunTexts
          /\ use_ai \in BOOLEAN
          /\ use_web_research \in BOOLEAN
          /\ lexicon_available \in BOOLEAN
          /\ researcher_fails \in BOOLEAN
          /\ context_info = NoneCtx
          /\ tamil_text = <<>>
          /\ use_preprocessing = FALSE
          /\ translation_mode = "none"
       \/ /\ entry = "tai"
          /\ pc = "ai_start"
          /\ text \in RunTexts
          /\ use_ai = TRUE
          /\ use_web_research \in BOOLEAN
          /\ lexicon_available \in BOOLEAN
          /\ researcher_fails = FALSE
          /\ context_info \in SuppliedContexts
          /\ tamil_text = <<>>
          /\ use_preprocessing = FALSE
          /\ translation_mode = "none"

\* research_classical_tamil_context(text) as the translator calls it, without
\* search_results: what it computes, or what its handler of lines 359-361
\* returns when something fails inside it.
Researched(t, fails) ==
    IF fails THEN _fallback_classical_context
    ELSE research_classical_tamil_context(t, NoSearch)

\* ---- main (app.py) ----

\* Line 184 is false: nothing is processed (line 592).
MainSkip ==
    /\ pc = "m_start"
    /\ Strip(tamil_text, Whitespace) = <<>>
    /\ pc' = "done"
    /\ UNCHANGED <<otherVars, subVars, ctxVars, cfgVars, mainVars, callVars, context_info, reply, ai_result, exc,
                   fb_caller, raised, tier, histVars>>

\* Line 186 with a run that starts from the text the session holds.
StartTextFromSession(input, stored) ==
    IF stored.present /\ stored.info.modernized_text.t = "str"
    THEN stored.info.modernized_text.s
    ELSE input

\* Line 186: the run starts from the text typed in, whatever st.session_state
\* holds.
StartText(input, stored) == input

\* Lines 186-191.
MainPreprocess ==
    /\ pc = "m_start"
    /\ Strip(tamil_text, Whitespace) # <<>>
    /\ processed_text' = StrVal(IF use_preprocessing
                                THEN preprocess_classical_tamil(StartText(tamil_text, session))
                                ELSE StartText(tamil_text, session))
    /\ translation_changes' = ListVal(<<>>)
    /\ pc' = "m_translate"
    /\ UNCHANGED <<otherVars, subVars, ctxVars, cfgVars, session, callVars, context_info, reply, ai_result, exc,
                   fb_caller, raised, tier, histVars>>

\* Lines 196-197.
MainDictionary ==
    /\ pc = "m_translate"
    /\ translation_mode = "dictionary"
    /\ processed_text' = StrVal(replace_old_tamil_words(processed_text.s, lexicon))
    /\ pc' = "m_display"
    /\ UNCHANGED <<otherVars, subVars, ctxVars, cfgVars, translation_changes, session, callVars, context_info, reply,
                   ai_result, exc, fb_caller, raised, tier, histVars>>

\* Lines 198-203: the call get_comprehensive_translation(processed_text, True, True).
\* The import of line 202 cannot fail: line 7 has imported the module.
MainAI ==
    /\ pc = "m_translate"
    /\ translation_mode = "ai"
    /\ text' = processed_text.s
    /\ use_ai' = TRUE
    /\ use_web_research' = TRUE
    /\ pc' = "gc_start"
    /\ UNCHANGED <<otherVars, subVars, ctxVars, cfgVars, mainVars, context_info, reply, ai_result, exc, fb_caller,
                   raised, tier, histVars>>

\* Line 226 with the translator called on the text as it was before line 221.
BothModeInputUnsubstituted(normalized, substituted) == normalized

\* Line 226: in 'both' mode the translator is called on processed_text, which
\* line 221 has set to the dictionary-substituted text.
BothModeInput(normalized, substituted) == substituted

\* Lines 219-226: dictionary first, then the same call on its output.
MainBoth ==
    /\ pc = "m_translate"
    /\ translation_mode = "both"
    /\ LET substituted == replace_old_tamil_words(processed_text.s, lexicon)
       IN  /\ processed_text' = StrVal(substituted)
           /\ text' = BothModeInput(processed_text.s, substituted)
    /\ use_ai' = TRUE
    /\ use_web_research' = TRUE
    /\ pc' = "gc_start"
    /\ UNCHANGED <<otherVars, subVars, ctxVars, cfgVars, translation_changes, session, context_info, reply, ai_result,
                   exc, fb_caller, raised, tier, histVars>>

\* Lines 204-218 ('ai') and 227-236 ('both'), after the call returned or
\* raised.  In 'ai' mode "confidence < 0.7" raises TypeError for a confidence
\* that is no number; the handler of line 213 then substitutes in
\* processed_text, which line 204 has already set, and that raises
\* AttributeError out of main when it is no str.
MainAfterTranslate ==
    /\ pc = "m_after"
    /\ LET mt == ai_result.modernized_text
           stored == [present |-> TRUE, info |-> ai_result]
           cleared == [present |-> FALSE, info |-> NoResult]
       IN  IF exc # ""
           THEN /\ processed_text' =
                       IF translation_mode = "ai"
                       THEN StrVal(replace_old_tamil_words(processed_text.s, lexicon))
                       ELSE processed_text
                /\ session' = cleared
                /\ exc' = ""
                /\ pc' = "m_display"
                /\ UNCHANGED <<translation_changes, raised>>
           ELSE IF translation_mode = "ai" /\ ai_result.confidence.t # "num"
           THEN /\ translation_changes' = ai_result.changes_made
                /\ IF mt.t = "str"
                   THEN /\ processed_text' = StrVal(replace_old_tamil_words(mt.s, lexicon))
                        /\ session' = cleared
                        /\ pc' = "m_display"
                        /\ raised' = FALSE
                   ELSE /\ processed_text' = mt
                        /\ session' = stored
                        /\ pc' = "done"
                        /\ raised' = TRUE
                /\ exc' = ""
           ELSE /\ processed_text' = mt
                /\ translation_changes' = ai_result.changes_made
                /\ session' = stored
                /\ pc' = "m_display"
                /\ UNCHANGED <<exc, raised>>
    /\ UNCHANGED <<otherVars, subVars, ctxVars, cfgVars, callVars, context_info, reply, ai_result, fb_caller, tier,
                   histVars>>

\* Lines 238-288, the text comparison: "processed_text != tamil_text" holds
\* for a processed_text that is no str, and line 276 then calls
\* processed_text.split(), which raises AttributeError out of main.
MainDisplay ==
    /\ pc = "m_display"
    /\ raised' = (processed_text.t # "str")
    /\ pc' = "done"
    /\ UNCHANGED <<otherVars, subVars, ctxVars, cfgVars, mainVars, callVars, context_info, reply, ai_result, exc,
                   fb_caller, tier, histVars>>

\* ---- get_comprehensive_translation ----

\* Lines 127-136.  research_classical_tamil_context catches everything it
\* raises, so the handler of line 131 has nothing to catch.
GcResearch ==
    /\ pc = "gc_start"
    /\ IF use_web_research
       THEN /\ context_info' = DictCtx(Researched(text, researcher_fails))
            /\ research_calls' = research_calls + 1
       ELSE /\ context_info' = NoneCtx
            /\ UNCHANGED research_calls
    /\ IF use_ai
       THEN pc' = "ai_start" /\ UNCHANGED fb_caller
       ELSE pc' = "fb_start" /\ fb_caller' = "gc"
    /\ UNCHANGED <<otherVars, runsVars, subVars, ctxVars, cfgVars, mainVars, callVars, reply, ai_result, exc, raised, tier,
                   llm_calls, attempts>>

\* Lines 138-146, after translate_classical_tamil_with_ai returned or raised:
\* whatever it returned is tagged 'AI-powered' and returned; had it raised,
\* the fallback would run.
GcAfterAI ==
    /\ pc = "ai_ret"
    /\ entry # "tai"
    /\ IF exc # "" /\ HandlerCatches(exc)
       THEN /\ exc' = ""
            /\ pc' = "fb_start"
            /\ fb_caller' = "gc"
            /\ UNCHANGED ai_result
       ELSE IF exc # ""
       THEN /\ pc' = "gc_ret"
            /\ UNCHANGED <<ai_result, exc, fb_caller>>
       ELSE /\ ai_result' = [ai_result EXCEPT !.translation_method = "AI-powered"]
            /\ pc' = "gc_ret"
            /\ UNCHANGED <<exc, fb_caller>>
    /\ UNCHANGED <<otherVars, subVars, ctxVars, cfgVars, mainVars, callVars, context_info, reply,
                   raised, tier, histVars>>

\* The return of get_comprehensive_translation: lines 148-159 turn an
\* exception that reached the outer try into the emergency result; one the
\* handler does not catch is raised to the caller.
GcReturn ==
    /\ pc = "gc_ret"
    /\ LET caught == exc # "" /\ HandlerCatches(exc)
       IN  /\ IF caught
              THEN /\ ai_result' = EmergencyResult(text)
                   /\ tier' = "emergency"
                   /\ exc' = ""
                   /\ attempts' = Append(attempts, "emergency")
              ELSE UNCHANGED <<ai_result, tier, exc, attempts>>
           /\ IF entry = "main"
              THEN pc' = "m_after" /\ UNCHANGED raised
              ELSE pc' = "done" /\ raised' = (exc # "" /\ ~caught)
    /\ UNCHANGED <<otherVars, runsVars, subVars, ctxVars, cfgVars, mainVars, callVars, context_info, reply,
                   fb_caller, llm_calls, research_calls>>

\* ---- translate_classical_tamil_with_ai ----

\* Lines 29-42.
AiContext ==
    /\ pc = "ai_start"
    /\ IF context_info.t = "none" /\ use_web_research
       THEN /\ context_info' = DictCtx(Researched(text, researcher_fails))
            /\ research_calls' = research_calls + 1
       ELSE UNCHANGED <<context_info, research_calls>>
    /\ pc' = "ai_call"
    /\ UNCHANGED <<otherVars, runsVars, subVars, ctxVars, cfgVars, mainVars, callVars, reply, ai_result, exc, fb_caller, raised,
                   tier, llm_calls, attempts>>

\* Lines 76-107: one request, and the result built from its reply.
AiRequest ==
    /\ pc = "ai_call"
    /\ \E r \in llm_replies :
          /\ reply' = r
          /\ IF ReplyFails(r)
             THEN /\ exc' = IF ExceptionOf(r) # "" THEN ExceptionOf(r) ELSE "KeyError"
                  /\ pc' = "ai_except"
                  /\ UNCHANGED <<ai_result, tier>>
             ELSE /\ ai_result' = AIResult(text, context_info, r)
                  /\ tier' = "ai"
                  /\ pc' = "ai_ret"
                  /\ UNCHANGED exc
    /\ llm_calls' = llm_calls + 1
    /\ attempts' = Append(attempts, "ai")
    /\ UNCHANGED <<otherVars, runsVars, subVars, ctxVars, cfgVars, mainVars, callVars, context_info, fb_caller, raised,
                   research_calls>>

\* Lines 109-112 with a handler that issues the request again.
AiHandlerRetries(e) == IF e # "" /\ HandlerCatches(e) THEN "ai_call" ELSE "ai_ret"

\* Lines 109-112: where the handler of translate_classical_tamil_with_ai goes
\* with exception e: into the fallback, once.
AiHandlerTarget(e) == IF e # "" /\ HandlerCatches(e) THEN "fb_start" ELSE "ai_ret"

\* Lines 109-112: the handler calls the fallback and returns what it returns.
AiExcept ==
    /\ pc = "ai_except"
    /\ pc' = AiHandlerTarget(exc)
    /\ IF exc # "" /\ HandlerCatches(exc)
       THEN /\ exc' = ""
            /\ fb_caller' = "ai"
       ELSE UNCHANGED <<exc, fb_caller>>
    /\ UNCHANGED <<otherVars, subVars, ctxVars, cfgVars, mainVars, callVars, context_info, reply, ai_result, raised,
                   tier, histVars>>

\* The return of a direct call of translate_classical_tamil_with_ai.
TaiReturn ==
    /\ pc = "ai_ret"
    /\ entry = "tai"
    /\ raised' = (exc # "")
    /\ pc' = "done"
    /\ UNCHANGED <<otherVars, subVars, ctxVars, cfgVars, mainVars, callVars, context_info, reply, ai_result, exc,
                   fb_caller, tier, histVars>>

\* ---- _fallback_meaning_based_translation ----

\* Where the fallback returns to: the handler of translate_classical_tamil_with_ai
\* (which returns its result) or get_comprehensive_translation.
FallbackReturn == IF fb_caller = "ai" THEN "ai_ret" ELSE "gc_ret"

\* Line 385 with a fallback that asks the researcher whatever it was given.
FallbackAlwaysResearches(ctx) == TRUE

\* Line 385: "if context_info is None".
FallbackNeedsContext(ctx) == ctx.t = "none"

\* Lines 385-386.
FbContext ==
    /\ pc = "fb_start"
    /\ IF FallbackNeedsContext(context_info)
       THEN /\ context_info' = DictCtx(Researched(text, researcher_fails))
            /\ research_calls' = research_calls + 1
       ELSE UNCHANGED <<context_info, research_calls>>
    /\ pc' = "fb_dict"
    /\ UNCHANGED <<otherVars, runsVars, subVars, ctxVars, cfgVars, mainVars, callVars, reply, ai_result, exc, fb_caller, raised,
                   tier, llm_calls, attempts>>

\* Lines 389-423: the import raises ImportError when the lexicon module is
\* unavailable.
FbTranslate ==
    /\ pc = "fb_dict"
    /\ IF lexicon_available
       THEN /\ ai_result' = ContextFallbackResult(text, context_info, lexicon)
            /\ tier' = "context"
            /\ pc' = FallbackReturn
            /\ UNCHANGED exc
       ELSE /\ exc' = "ImportError"
            /\ pc' = "fb_except"
            /\ UNCHANGED <<ai_result, tier>>
    /\ attempts' = Append(attempts, "context")
    /\ UNCHANGED <<otherVars, runsVars, subVars, ctxVars, cfgVars, mainVars, callVars, context_info, reply, fb_caller, raised,
                   llm_calls, research_calls>>

\* Line 425 with a handler that lets every exception through.
FallbackHandlerCatchesNothing(e) == FALSE

\* Line 425: "except Exception" of _fallback_meaning_based_translation.
FallbackHandlerCatches(e) == HandlerCatches(e)

\* Lines 425-436.
FbMinimal ==
    /\ pc = "fb_except"
    /\ IF exc # "" /\ FallbackHandlerCatches(exc)
       THEN /\ ai_result' = MinimalResult(text, context_info)
            /\ tier' = "minimal"
            /\ exc' = ""
            /\ attempts' = Append(attempts, "minimal")
       ELSE UNCHANGED <<ai_result, tier, exc, attempts>>
    /\ pc' = FallbackReturn
    /\ UNCHANGED <<otherVars, runsVars, subVars, ctxVars, cfgVars, mainVars, callVars, context_info, reply, fb_caller, raised,
                   llm_calls, research_calls>>

Next ==
    \/ MainSkip \/ MainPreprocess \/ MainDictionary \/ MainAI \/ MainBoth
    \/ MainAfterTranslate \/ MainDisplay
    \/ GcResearch \/ GcAfterAI \/ GcReturn
    \/ AiContext \/ AiRequest \/ AiExcept \/ TaiReturn
    \/ FbContext \/ FbTranslate \/ FbMinimal

Init == RunInit /\ SubIdle /\ CtxIdle /\ OtherIdle

Spec == Init /\ [][Next]_vars

\* ------------------------------------------------------------------------
\* Specification of a session: Streamlit runs main again on every
\* interaction, with fresh locals and the same st.session_state.
\* ------------------------------------------------------------------------

MaxRuns == 3

\* Inputs of the runs of a session: a blank text, a text with an old word and
\* a text the normalizer changes, and a failing reply, a usable one and one whose confidence is no number.
RunsTexts == {<<" ">>, <<"(", "ka", "ma", ")">>, <<"va", "ta", "sEE">>}
RunsLexicon == [k \in {<<"ka", "ma">>} |-> <<"ma", "ka">>]
RunsReplies ==
    {[kind |-> "timeout", modernized_text |-> AbsentText, changes_made |-> AbsentList,
      confidence |-> AbsentNum],
     [kind |-> "object", modernized_text |-> StrVal(<<"ka", "nna", "VIRAMA", "tta", "sU">>),
      changes_made |-> ListVal(<< <<<<"ka", "ma">>, <<"ma", "ka">>>> >>),
      confidence |-> NumVal(95)],
     [kind |-> "object", modernized_text |-> StrVal(<<"ka", "nna", "VIRAMA", "tta", "sU">>),
      changes_made |-> AbsentList, confidence |-> OtherNum]}

\* What a run of main was given, and the final text and changelog it made.
RunKey == <<tamil_text, use_preprocessing, translation_mode, lexicon, reply>>
RunResult == <<processed_text, translation_changes>>

RunsInit ==
    /\ entry = "main"
    /\ pc = "m_start"
    /\ run_no = 1
    /\ first = NoRun
    /\ llm_replies = RunsReplies
    /\ researcher_fails = FALSE
    /\ tamil_text \in RunsTexts
    /\ use_preprocessing \in BOOLEAN
    /\ translation_mode \in Modes
    /\ lexicon = RunsLexicon
    /\ lexicon_available = TRUE
    /\ processed_text = UnsetText
    /\ translation_changes = ListVal(<<>>)
    /\ session = [present |-> FALSE, info |-> NoResult]
    /\ text = <<>>
    /\ use_ai = FALSE
    /\ use_web_research = FALSE
    /\ context_info = NoneCtx
    /\ reply = NoReply
    /\ ai_result = NoResult
    /\ exc = ""
    /\ fb_caller = ""
    /\ raised = FALSE
    /\ tier = "none"
    /\ llm_calls = 0
    /\ research_calls = 0
    /\ attempts = <<>>
    /\ SubIdle /\ CtxIdle /\ OtherIdle

\* The next run of main in the session: the widgets hold new values, the
\* locals of main are fresh and st.session_state is what the last run left.
MainRerun ==
    /\ pc = "done"
    /\ entry = "main"
    /\ run_no < MaxRuns
    /\ run_no' = run_no + 1
    /\ first' = IF run_no = 1 THEN [key |-> RunKey, result |-> RunResult] ELSE first
    /\ tamil_text' \in RunsTexts
    /\ use_preprocessing' \in BOOLEAN
    /\ translation_mode' \in Modes
    /\ processed_text' = UnsetText
    /\ translation_changes' = ListVal(<<>>)
    /\ text' = <<>>
    /\ use_ai' = FALSE
    /\ use_web_research' = FALSE
    /\ context_info' = NoneCtx
    /\ reply' = NoReply
    /\ ai_result' = NoResult
    /\ exc' = ""
    /\ fb_caller' = ""
    /\ raised' = FALSE
    /\ tier' = "none"
    /\ llm_calls' = 0
    /\ research_calls' = 0
    /\ attempts' = <<>>
    /\ pc' = "m_start"
    /\ UNCHANGED <<otherVars, subVars, ctxVars, entry, lexicon, lexicon_available, llm_replies,
                   researcher_fails, session>>

\* main reaches neither a direct call of translate_classical_tamil_with_ai
\* nor, with tamil_dictionary imported at line 6, the minimal fallback.
RunsNext ==
    \/ MainSkip \/ MainPreprocess \/ MainDictionary \/ MainAI \/ MainBoth
    \/ MainAfterTranslate \/ MainDisplay \/ MainRerun
    \/ GcResearch \/ GcAfterAI \/ GcReturn
    \/ AiContext \/ AiRequest \/ AiExcept
    \/ FbContext \/ FbTranslate

SpecRuns == RunsInit /\ [][RunsNext]_vars

\* ------------------------------------------------------------------------
\* Claims about the Meaning Translator and the orchestrator
\* ------------------------------------------------------------------------

\* get_comprehensive_translation has returned a result (to main or to a
\* direct caller).
GcReturned ==
    /\ entry \in {"gct", "main"}
    /\ pc \in {"m_after", "m_display", "done"}
    /\ tier # "none"

\* A direct call of translate_classical_tamil_with_ai has ended.
TaiEnded == entry = "tai" /\ pc = "done"

\* The language-model call was made and failed.
LlmFailed == reply.kind \in FailureKinds

\* C1: when the language-model call raises, times out or returns empty or
\* non-JSON content, the result returned by
\* get_comprehensive_translation(text, use_ai=True, ...) has translation_method
\* 'Context-based fallback' or 'Minimal fallback', never an AI-powered tag.
C1_FailedCallNotTaggedAI ==
    (GcReturned /\ use_ai /\ reply.kind \in {"raise", "timeout", "empty", "nonjson"}) =>
        ai_result.translation_method \in {"Context-based fallback", "Minimal fallback"}

\* C2: a result built by a fallback tier carries that tier's hardcoded
\* confidence (0.6 context-based, 0.3 minimal, 0.1 emergency), so whenever
\* the language-model call failed the returned confidence is at most 0.6.
C2_FallbackConfidenceBands ==
    /\ EmergencyResult(text).confidence = NumVal(10)
    /\ (GcReturned \/ TaiEnded) =>
          /\ tier = "context" => ai_result.confidence = NumVal(60)
          /\ tier = "minimal" => ai_result.confidence = NumVal(30)
          /\ tier = "emergency" => ai_result.confidence = NumVal(10)
          /\ LlmFailed => ai_result.confidence.t = "num" /\ ai_result.confidence.n <= 60

\* An 'ai' run of main whose language-model call failed and whose result
\* the context-based fallback built from a text it substituted in.
C2_Witness ==
    /\ entry = "main"
    /\ pc = "done"
    /\ LlmFailed
    /\ tier = "context"
    /\ ai_result.changes_made.items # <<>>
    /\ ai_result.confidence = NumVal(60)

\* C3: confidence is monotone along the chain: for every reply the
\* confidence of a successful AI-stage result is >= the context-based
\* fallback's, which is >= the minimal fallback's, which is >= the emergency
\* fallback's.
C3_ConfidenceMonotone ==
    /\ ContextFallbackConfidence >= MinimalFallbackConfidence
    /\ MinimalFallbackConfidence >= EmergencyFallbackConfidence
    /\ ((GcReturned \/ TaiEnded) /\ tier = "ai" /\ ai_result.confidence.t = "num") =>
          ai_result.confidence.n >= ContextFallbackConfidence

\* C4: the confidence of every returned TranslationResult is a number in
\* [0,1], whichever tier built it and whatever the reply contains.
C4_ConfidenceInUnitInterval ==
    (GcReturned \/ TaiEnded) =>
        /\ ai_result.confidence.t = "num"
        /\ ai_result.confidence.n >= 0
        /\ ai_result.confidence.n <= 100

\* C5 as claimed: a reply that is a JSON object but lacks modernized_text or
\* confidence is treated like a failed call, the result coming from the
\* context-based fallback and not from the AI stage.
C5_MissingFieldsFallThrough ==
    ((GcReturned \/ TaiEnded) /\ reply.kind = "object"
         /\ (reply.modernized_text.t = "absent" \/ reply.confidence.t = "absent")) =>
        tier \in {"context", "minimal"}

\* C5 as amended: every reply that is a JSON object yields an AI-stage
\* result, a missing modernized_text defaulting to the input text, a missing
\* confidence to 0.8 and a missing changes_made to the empty list; only a
\* call that raised, timed out or returned empty, non-JSON or non-object
\* content falls through to the fallback tiers.
C5_MissingFieldsDefaulted ==
    (GcReturned \/ TaiEnded) =>
        /\ reply.kind = "object" =>
              /\ tier = "ai"
              /\ reply.modernized_text.t = "absent" => ai_result.modernized_text = StrVal(text)
              /\ reply.confidence.t = "absent" => ai_result.confidence = NumVal(80)
              /\ reply.changes_made.t = "absent" => ai_result.changes_made = ListVal(<<>>)
        /\ LlmFailed => tier \in {"context", "minimal"}

\* A reply without modernized_text and confidence that became an AI-stage result.
C5_Witness ==
    /\ pc = "done"
    /\ reply.kind = "object"
    /\ reply.modernized_text.t = "absent"
    /\ reply.confidence.t = "absent"
    /\ text # <<>>
    /\ tier = "ai"
    /\ ai_result.modernized_text = StrVal(text)
    /\ ai_result.confidence = NumVal(80)

\* C6: for every non-empty input text and every language-model outcome the
\* modernized_text returned by get_comprehensive_translation is a non-empty
\* text.
C6_NeverNoOutput ==
    (GcReturned /\ text # <<>>) =>
        /\ ai_result.modernized_text.t = "str"
        /\ ai_result.modernized_text.s # <<>>

\* C7: for every outcome of the language-model call (exception, timeout,
\* empty content, non-JSON content, JSON that is no object, a JSON object)
\* a call of translate_classical_tamil_with_ai or get_comprehensive_translation
\* that has ended has returned a TranslationResult and raised nothing, and an
\* exception in flight inside the call always stands in front of a handler.
C7_TranslatorNeverRaises ==
    entry \in {"gct", "tai"} =>
        /\ exc # "" => pc \in {"ai_except", "fb_except"}
        /\ pc = "done" =>
              /\ ~raised
              /\ tier # "none"
              /\ ai_result.translation_method # ""
              /\ ai_result.original_text = text

\* A direct call whose reply was JSON but no object, answered by a fallback tier.
C7_Witness ==
    /\ entry = "tai"
    /\ pc = "done"
    /\ reply.kind = "nonobject"
    /\ ~raised
    /\ tier \in {"context", "minimal"}

\* C8: the orchestrator never raises: for every input text, configuration
\* and collaborator outcome a run of main ends with a final text.
C8_OrchestratorNeverRaises ==
    (entry = "main" /\ pc = "done") =>
        /\ ~raised
        /\ processed_text.t \in {"str", "unset"}

\* ------------------------------------------------------------------------
\* Claims about the Dictionary Substitution Stage
\* ------------------------------------------------------------------------

\* Every modern word of the lexicon is one token: not empty, no blank in it.
SingleTokenLexicon(lex) == \A k \in DOMAIN lex : Len(Split(lex[k])) = 1 /\ Split(lex[k])[1] = lex[k]

\* C10 as claimed: for every text and every lexicon the output of
\* replace_old_tamil_words has as many whitespace-delimited tokens as the input.
C10_TokenCountPreserved ==
    sub_pc = "done" => Len(Split(sub_out)) = Len(Split(sub_text))

\* C10 as amended: for every text and every lexicon whose modern words are
\* each a single token (not empty, no whitespace in it), the output of
\* replace_old_tamil_words has as many tokens as the input.
C10_TokenCountPreservedSingleToken ==
    (sub_pc = "done" /\ SingleTokenLexicon(sub_lex)) =>
        Len(Split(sub_out)) = Len(Split(sub_text))

\* A text of two tokens, one of them substituted with its trailing
\* punctuation and one passed through.
C10_Witness ==
    /\ sub_pc = "done"
    /\ SingleTokenLexicon(sub_lex)
    /\ sub_text = <<"ka", ".", " ", "ma">>
    /\ <<"ka">> \in DOMAIN sub_lex
    /\ sub_out = <<"ma", ".", " ", "ma">>

\* The trailing punctuation of a token: what follows its last character
\* outside the punctuation set.
TrailingPunctuation(word) == SliceFrom(word, Len(RStrip(word, AppPunctuation)))

\* What the substitution is expected to output for a token: the mapped modern
\* word and the token's trailing punctuation when the stripped token is a
\* key of the lexicon, the token itself otherwise.
ExpectedToken(word, lex) ==
    IF Strip(word, AppPunctuation) \in DOMAIN lex
    THEN lex[Strip(word, AppPunctuation)] \o TrailingPunctuation(word)
    ELSE word

\* C11: for every token whose punctuation-stripped form is a lexicon key,
\* replace_old_tamil_words outputs exactly the mapped modern word followed by
\* the token's original trailing punctuation (leading punctuation dropped,
\* nothing else of the token kept); every other token is output verbatim.
C11_MappedWordThenTrailingPunctuation ==
    sub_pc = "done" =>
        LET words == Split(sub_text)
        IN  sub_out = Join([i \in 1..Len(words) |-> ExpectedToken(words[i], sub_lex)])

\* ------------------------------------------------------------------------
\* Specification of the Normalizer as a function of its argument, applied
\* once and then again to its own result.
\* ------------------------------------------------------------------------

MaxNormWords == 2

\* Words of the normalizer's input texts: a fused compound of the sandhi
\* list alone and inside a longer token, a word with a phonetic pattern, one
\* word for each archaic verb ending, a word that ends like an archaic verb
\* but has a vowel sign (no \w character) before the ending, a word no rule
\* touches, and a punctuation mark.
NormWords ==
    {<<"ka", "nna", "VIRAMA", "tta", "sU", "ma", "VIRAMA">>,
     <<"a", "ka", "nna", "VIRAMA", "tta", "sU", "ma", "VIRAMA">>,
     <<"ka", "zha", "VIRAMA">>,
     <<"ka", "sU", "ma", "sEE">>,
     <<"pa", "va", "sEE">>,
     <<"va", "ta", "sEE">>,
     <<"sU", "ta", "sEE">>,
     <<"ma", "ka">>,
     <<".">>}

\* What stands before each word: nothing (the word is fused to the one
\* before it), one blank or two.
NormSeparators == {<<>>, <<" ">>, <<" ", " ">>}

RECURSIVE NormTextsOf(_)
\* The texts of exactly n words.
NormTextsOf(n) ==
    IF n = 0 THEN {<<>>}
    ELSE {t \o sep \o w : t \in NormTextsOf(n - 1), sep \in NormSeparators, w \in NormWords}

NormTexts == UNION {NormTextsOf(n) : n \in 0..MaxNormWords}

NormInit ==
    /\ norm_pc = "call"
    /\ norm_text \in NormTexts
    /\ norm_sandhi = <<>>
    /\ norm_out = <<>>
    /\ norm_again = <<>>

\* preprocess_classical_tamil(norm_text)
Normalize ==
    /\ norm_pc = "call"
    /\ norm_sandhi' = SandhiPass(norm_text)
    /\ norm_out' = preprocess_classical_tamil(norm_text)
    /\ norm_pc' = "once"
    /\ UNCHANGED <<norm_text, norm_again>>
    /\ UNCHANGED <<subVars, ctxVars, runVars, ttsVars, dbVars>>

\* preprocess_classical_tamil applied to the result of the first call.
NormalizeAgain ==
    /\ norm_pc = "once"
    /\ norm_again' = preprocess_classical_tamil(norm_out)
    /\ norm_pc' = "done"
    /\ UNCHANGED <<norm_text, norm_sandhi, norm_out>>
    /\ UNCHANGED <<subVars, ctxVars, runVars, ttsVars, dbVars>>

NormStart == NormInit /\ SubIdle /\ CtxIdle /\ RunIdle /\ TtsIdle /\ DbIdle

NormNext == Normalize \/ NormalizeAgain

SpecNorm == NormStart /\ [][NormNext]_vars

\* ------------------------------------------------------------------------
\* Claims about the Normalizer
\* ------------------------------------------------------------------------

\* pat occurs in s (re.search of a pattern without metacharacters).
Contains(s, pat) ==
    \E i \in 1..(Len(s) - Len(pat) + 1) : SubSeq(s, i, i + Len(pat) - 1) = pat

\* r'(\w+)suffix$' matches in word.
SuffixMatches(word, suffix) ==
    /\ Len(word) > Len(suffix)
    /\ SubSeq(word, Len(word) - Len(suffix) + 1, Len(word)) = suffix
    /\ word[Len(word) - Len(suffix)] \in WordChars

\* Some sandhi or phonetic pattern matches in the text, or some verb pattern
\* matches in one of its words.
PatternMatches(t) ==
    \/ \E i \in DOMAIN sandhi_patterns : Contains(t, sandhi_patterns[i][1])
    \/ \E i \in DOMAIN phonetic_normalizations : Contains(t, phonetic_normalizations[i][1])
    \/ \E i \in DOMAIN Split(t), j \in DOMAIN classical_verb_patterns :
          SuffixMatches(Split(t)[i], classical_verb_patterns[j][1])

\* C12: for every text x whose one-pass output preprocess_classical_tamil(x)
\* contains no further sandhi, phonetic or suffix pattern match,
\* preprocess_classical_tamil(preprocess_classical_tamil(x)) equals
\* preprocess_classical_tamil(x).
C12_IdempotentOnFixedPoints ==
    (norm_pc = "done" /\ ~PatternMatches(norm_out)) => norm_again = norm_out

\* A text the first pass changed (a sandhi split and a verb ending rewritten)
\* into one with no further match, which the second pass returns as it is.
C12_Witness ==
    /\ norm_pc = "done"
    /\ norm_text = <<"ka", "nna", "VIRAMA", "tta", "sU", "ma", "VIRAMA", " ", " ", "pa", "va", "sEE">>
    /\ norm_out = <<"ka", "nna", "VIRAMA", "tta", "sU", " ", "u", "ma", "VIRAMA", " ", "pa", "va", "ta", "sU">>
    /\ ~PatternMatches(norm_out)
    /\ norm_again = norm_out

\* What the sandhi pass is expected to make of one token: its separated form
\* if the token is one of the fused compounds, the token itself otherwise.
ExpectedSandhiToken(word) ==
    IF \E i \in DOMAIN sandhi_patterns : sandhi_patterns[i][1] = word
    THEN sandhi_patterns[CHOOSE i \in DOMAIN sandhi_patterns : sandhi_patterns[i][1] = word][2]
    ELSE word

\* C13: the sandhi pass rewrites exactly the whole tokens that equal one of
\* the five fused compounds, each to its two-word separated form; a token
\* that only contains a compound as a proper substring is not rewritten.
C13_SandhiWholeTokensOnly ==
    norm_pc # "call" =>
        LET words == Split(norm_text)
        IN  Split(norm_sandhi) = Split(Join([i \in 1..Len(words) |-> ExpectedSandhiToken(words[i])]))

\* ------------------------------------------------------------------------
\* Speech synthesis (premium_tts_service.py, text_to_speech_tamil of app.py)
\* ------------------------------------------------------------------------

\* self.providers of PremiumTTSService.__init__
providers == {"gtts", "elevenlabs", "google_cloud", "azure"}

\* The providers that need credentials.
PremiumProviders == providers \ {"gtts"}

\* _gtts_generate(text, ...): the bytes gTTS makes of the text, or None when
\* gTTS fails (lines 38-46).
_gtts_generate(t, env) == IF env.gtts_ok THEN Audio("gtts", t) ELSE NoneAudio

\* "return self._gtts_generate(text, voice_accent='com', slow=False, **kwargs)"
\* in a premium provider: a TypeError when kwargs names voice_accent or slow
\* again.
GttsFromProvider(t, env, clash) ==
    IF clash THEN [exc |-> "TypeError", out |-> NoAudio]
    ELSE [exc |-> "", out |-> _gtts_generate(t, env)]

\* A premium provider that returns None on a non-success status.
PremiumGenerateNoStatusFallback(provider, t, env, clash) ==
    IF ~env.cred THEN GttsFromProvider(t, env, clash)
    ELSE CASE env.http = "ok" -> [exc |-> "", out |-> Audio(provider, t)]
           [] env.http = "bad_body" ->
                IF provider = "google_cloud"
                THEN GttsFromProvider(t, env, clash)
                ELSE [exc |-> "", out |-> Audio(provider, t)]
           [] env.http = "status_error" -> [exc |-> "", out |-> NoneAudio]
           [] OTHER -> GttsFromProvider(t, env, clash)

\* _elevenlabs_generate, _google_cloud_generate, _azure_generate: the value
\* returned or the exception raised.  Without the API key, on a status other
\* than 200 and on an exception of the request (or, for google_cloud, of
\* decoding the body) the provider returns what _gtts_generate returns; a
\* TypeError of that call made in the try block is caught by the except
\* block, which makes the call again and raises it.
PremiumGenerate(provider, t, env, clash) ==
    IF ~env.cred THEN GttsFromProvider(t, env, clash)
    ELSE CASE env.http = "ok" -> [exc |-> "", out |-> Audio(provider, t)]
           [] env.http = "bad_body" ->
                IF provider = "google_cloud"
                THEN GttsFromProvider(t, env, clash)
                ELSE [exc |-> "", out |-> Audio(provider, t)]
           [] OTHER -> GttsFromProvider(t, env, clash)

\* generate_speech accepts every provider name.
ProviderSupportedAlways(provider) == TRUE

\* "provider not in self.providers" of line 24, negated.
ProviderSupported(provider) == provider \in providers

\* Provider names a caller may pass: the four known ones and one unknown.
RequestedProviders == providers \cup {"festival"}

TtsTexts == {"vanakkam", ""}

\* The collaborators during one request: whether the provider's API key is
\* set, how its HTTP request ends, and whether gTTS succeeds.
TtsEnvs ==
    [cred : BOOLEAN, http : {"ok", "bad_body", "status_error", "raises"}, gtts_ok : BOOLEAN]

TtsInit ==
    /\ tts_entry \in {"app", "service"}
    /\ tts_pc = IF tts_entry = "app" THEN "app" ELSE "svc"
    /\ tts_requested \in RequestedProviders
    /\ tts_text \in TtsTexts
    /\ tts_clash \in (IF tts_entry = "app" THEN {FALSE} ELSE BOOLEAN)
    /\ tts_env \in TtsEnvs
    /\ tts_provider = IF tts_entry = "app" THEN "" ELSE tts_requested
    /\ tts_exc = ""
    /\ tts_out = NoAudio
    /\ tts_raised = ""
    /\ tts_error_shown = FALSE

\* text_to_speech_tamil, lines 80-103: the call of generate_speech, with
\* provider 'gtts' for every name that is none of the four.
TtsApp ==
    /\ tts_pc = "app"
    /\ tts_provider' = IF tts_requested \in providers THEN tts_requested ELSE "gtts"
    /\ tts_pc' = "svc"
    /\ UNCHANGED <<ttsArgs, tts_exc, tts_out, tts_raised, tts_error_shown>>
    /\ UNCHANGED <<subVars, ctxVars, runVars, normVars, dbVars>>

\* generate_speech, lines 24-25: the provider check.
TtsCheckProvider ==
    /\ tts_pc = "svc"
    /\ IF ProviderSupported(tts_provider)
       THEN tts_pc' = "call" /\ UNCHANGED tts_exc
       ELSE tts_pc' = "svc_ret" /\ tts_exc' = "ValueError"
    /\ UNCHANGED <<ttsArgs, tts_provider, tts_out, tts_raised, tts_error_shown>>
    /\ UNCHANGED <<subVars, ctxVars, runVars, normVars, dbVars>>

\* generate_speech, lines 27-28: self.providers[provider](text, **kwargs).
TtsCallProvider ==
    /\ tts_pc = "call"
    /\ LET r == IF tts_provider \notin providers
                THEN [exc |-> "KeyError", out |-> NoAudio]
                ELSE IF tts_provider = "gtts"
                THEN [exc |-> "", out |-> _gtts_generate(tts_text, tts_env)]
                ELSE PremiumGenerate(tts_provider, tts_text, tts_env, tts_clash)
       IN  /\ tts_exc' = r.exc
           /\ tts_out' = r.out
           /\ tts_pc' = IF r.exc = "" THEN "svc_ret" ELSE "svc_except"
    /\ UNCHANGED <<ttsArgs, tts_provider, tts_raised, tts_error_shown>>
    /\ UNCHANGED <<subVars, ctxVars, runVars, normVars, dbVars>>

\* generate_speech, lines 29-34: the fallback to gTTS.
TtsServiceExcept ==
    /\ tts_pc = "svc_except"
    /\ tts_exc' = ""
    /\ tts_out' = IF tts_provider # "gtts" THEN _gtts_generate(tts_text, tts_env) ELSE NoneAudio
    /\ tts_pc' = "svc_ret"
    /\ UNCHANGED <<ttsArgs, tts_provider, tts_raised, tts_error_shown>>
    /\ UNCHANGED <<subVars, ctxVars, runVars, normVars, dbVars>>

\* generate_speech ends; text_to_speech_tamil returns its value (line 105) or,
\* on an exception, shows the error and returns None (lines 107-109).
TtsReturn ==
    /\ tts_pc = "svc_ret"
    /\ tts_pc' = "done"
    /\ IF tts_entry = "service"
       THEN /\ tts_raised' = tts_exc
            /\ UNCHANGED <<tts_out, tts_error_shown>>
       ELSE /\ tts_raised' = ""
            /\ tts_error_shown' = (tts_exc # "")
            /\ tts_out' = IF tts_exc # "" THEN NoneAudio ELSE tts_out
    /\ tts_exc' = ""
    /\ UNCHANGED <<ttsArgs, tts_provider>>
    /\ UNCHANGED <<subVars, ctxVars, runVars, normVars, dbVars>>

TtsStart == TtsInit /\ SubIdle /\ CtxIdle /\ RunIdle /\ NormIdle /\ DbIdle

TtsNext == TtsApp \/ TtsCheckProvider \/ TtsCallProvider \/ TtsServiceExcept \/ TtsReturn

SpecTts == TtsStart /\ [][TtsNext]_vars

\* ------------------------------------------------------------------------
\* Claims about speech synthesis
\* ------------------------------------------------------------------------

\* The request was signalled to its caller as an error.
TtsSignalled == tts_raised # "" \/ tts_error_shown

\* C14 as claimed: a speech-synthesis request naming an unrecognized provider
\* is signalled to the caller as a configuration error and is not served by
\* the default provider, while a request naming a known provider never is
\* signalled as an error.
C14_UnknownProviderSignalled ==
    tts_pc = "done" =>
        /\ tts_requested \notin providers => (TtsSignalled /\ tts_out.kind # "bytes")
        /\ tts_requested \in providers => ~TtsSignalled

\* C14 as amended: PremiumTTSService.generate_speech called with an
\* unrecognized provider raises ValueError and returns nothing, while
\* text_to_speech_tamil serves an unrecognized provider with gTTS without
\* signalling anything; a request naming a known provider never raises and
\* shows no error, through either entry point.
C14_UnknownProviderSignalledByService ==
    tts_pc = "done" =>
        /\ (tts_entry = "service" /\ tts_requested \notin providers) =>
              (tts_raised = "ValueError" /\ tts_out = NoAudio)
        /\ (tts_entry = "app" /\ tts_requested \notin providers) =>
              (~TtsSignalled /\ tts_out = _gtts_generate(tts_text, tts_env))
        /\ tts_requested \in providers => ~TtsSignalled

\* generate_speech has raised ValueError for the unknown provider.
C14_Witness ==
    /\ tts_pc = "done"
    /\ tts_entry = "service"
    /\ tts_requested = "festival"
    /\ tts_raised = "ValueError"

\* C15: for each of elevenlabs, google_cloud and azure, whenever its
\* credentials are missing, its HTTP response is no success or its request
\* raises, generate_speech raises nothing and returns what gTTS yields for
\* the same text (audio bytes, or None if gTTS fails too).
C15_PremiumFallsBackToGtts ==
    (/\ tts_pc = "done"
     /\ tts_provider \in PremiumProviders
     /\ (~tts_env.cred \/ tts_env.http \in {"status_error", "raises"})) =>
        /\ tts_raised = ""
        /\ tts_out = _gtts_generate(tts_text, tts_env)

\* azure with its key set answered with a status other than 200, and the
\* caller got the bytes of gTTS.
C15_Witness ==
    /\ tts_pc = "done"
    /\ tts_entry = "service"
    /\ tts_provider = "azure"
    /\ tts_env.cred
    /\ tts_env.http = "status_error"
    /\ tts_clash
    /\ tts_out = Audio("gtts", "vanakkam")

\* ------------------------------------------------------------------------
\* Lexicon Store (db_manager.py)
\* ------------------------------------------------------------------------

MaxDbOps == 3

\* get_db_connection with a connect that raises instead of being caught.
GetDbConnectionRaises(fault) == IF fault = "unreachable" THEN "raises" ELSE "conn"

\* get_db_connection: the connection, or None when psycopg2.connect raises.
get_db_connection(fault) == IF fault = "unreachable" THEN "None" ELSE "conn"

\* A row of custom_dictionary (the id column is not modelled).
Row(old_word, modern_word, description, created_at, updated_at) ==
    [old_word |-> old_word, modern_word |-> modern_word, description |-> description,
     created_at |-> created_at, updated_at |-> updated_at]

\* INSERT ... ON CONFLICT (old_word) DO NOTHING
InsertIgnoringConflict(rows, old_word, modern_word, description, now) ==
    IF \E r \in rows : r.old_word = old_word
    THEN rows
    ELSE rows \cup {Row(old_word, modern_word, description, now, now)}

\* The statement of lines 80-88 on a table with old_word UNIQUE and both
\* timestamps DEFAULT CURRENT_TIMESTAMP (lines 35-39): a row in conflict is
\* updated in place, otherwise a row is inserted.
InsertOrUpdate(rows, old_word, modern_word, description, now) ==
    IF \E r \in rows : r.old_word = old_word
    THEN {IF r.old_word = old_word
          THEN Row(old_word, modern_word, description, r.created_at, now)
          ELSE r : r \in rows}
    ELSE rows \cup {Row(old_word, modern_word, description, now, now)}

\* DELETE FROM custom_dictionary WHERE old_word = %s
DeleteWhere(rows, old_word) == {r \in rows : r.old_word # old_word}

\* cursor.rowcount > 0 of line 108
RowsMatch(rows, old_word) == \E r \in rows : r.old_word = old_word

\* {old: modern for old, modern in entries} of line 65
DictOf(rows) ==
    [k \in {r.old_word : r \in rows} |-> (CHOOSE r \in rows : r.old_word = k).modern_word]

\* The rows of lines 127-131, as a set (their order is not modelled).
RowsOf(rows) == {<<r.old_word, r.modern_word, r.description>> : r \in rows}

\* word ILIKE '%term%' for a term without wildcard characters.
ILike(word, term) ==
    \E i \in 1..(Len(word) - Len(term) + 1) : SubSeq(word, i, i + Len(term) - 1) = term

\* The rows of lines 150-155.
RowsLike(rows, term) ==
    {r \in RowsOf(rows) : ILike(r[1], term) \/ ILike(r[2], term)}

\* Arguments: old words and modern words with and without surrounding
\* blanks, descriptions, search terms.
DbOldWords == {<<"ka">>, <<"ka", " ">>, <<"ma">>}
DbModernWords == {<<"ma">>, <<" ", "ka", "ma">>}
DbDescriptions == {<<>>, <<"d">>}
DbSearchTerms == {<<"ka">>}

\* Faults injected into an operation: none, the store is unreachable
\* (psycopg2.connect raises), the statement raises.
DbFaults == {"none", "unreachable", "statement_fails"}

EmptyDict == [k \in {} |-> <<>>]

\* The connection is taken outside the try block of an operation and the
\* statement runs inside it: the operation completes when the connection is
\* there and the statement does not raise.
Completes(fault) == get_db_connection(fault) = "conn" /\ fault # "statement_fails"

\* The record of an operation: `ret` is what it returned, from its try block,
\* from "if not conn" or from its except block.
Operation(name, old_word, modern_word, description, fault, ret) ==
    [op |-> name, old_word |-> old_word, modern_word |-> modern_word,
     description |-> description, fault |-> fault,
     raised |-> (get_db_connection(fault) = "raises"), ret |-> ret]

\* add_dictionary_entry(old_word, modern_word, description)
DbAdd ==
    \E w \in DbOldWords, m \in DbModernWords, d \in DbDescriptions, f \in DbFaults :
        LET old_word == Strip(w, Whitespace)
            modern_word == Strip(m, Whitespace)
            description == Strip(d, Whitespace)
        IN  /\ db_ops < MaxDbOps
            /\ db_store' = IF Completes(f)
                           THEN InsertOrUpdate(db_store, old_word, modern_word, description,
                                               db_clock + 1)
                           ELSE db_store
            /\ db_added' = IF Completes(f)
                           THEN [k \in DOMAIN db_added \cup {old_word} |->
                                   IF k = old_word THEN [old_word |-> w, modern_word |-> m]
                                   ELSE db_added[k]]
                           ELSE db_added
            /\ db_last' = Operation("add", w, m, d, f, DbReturn(Completes(f), EmptyDict, {}))
            /\ db_prev' = db_store
            /\ db_ops' = db_ops + 1
            /\ db_clock' = db_clock + 1
            /\ UNCHANGED <<subVars, ctxVars, runVars, normVars, ttsVars>>

\* delete_dictionary_entry(old_word)
DbDelete ==
    \E w \in DbOldWords, f \in DbFaults :
        /\ db_ops < MaxDbOps
        /\ db_store' = IF Completes(f) THEN DeleteWhere(db_store, w) ELSE db_store
        /\ db_last' = Operation("delete", w, <<>>, <<>>, f,
                                DbReturn(Completes(f) /\ RowsMatch(db_store, w), EmptyDict, {}))
        /\ db_prev' = db_store
        /\ db_ops' = db_ops + 1
        /\ db_clock' = db_clock + 1
        /\ UNCHANGED db_added
        /\ UNCHANGED <<subVars, ctxVars, runVars, normVars, ttsVars>>

\* load_custom_dictionary()
DbLoad ==
    \E f \in DbFaults :
        /\ db_ops < MaxDbOps
        /\ db_last' = Operation("load", <<>>, <<>>, <<>>, f,
                                DbReturn(FALSE, IF Completes(f) THEN DictOf(db_store) ELSE EmptyDict, {}))
        /\ db_prev' = db_store
        /\ db_ops' = db_ops + 1
        /\ db_clock' = db_clock + 1
        /\ UNCHANGED <<db_store, db_added>>
        /\ UNCHANGED <<subVars, ctxVars, runVars, normVars, ttsVars>>

\* get_all_dictionary_entries()
DbList ==
    \E f \in DbFaults :
        /\ db_ops < MaxDbOps
        /\ db_last' = Operation("list", <<>>, <<>>, <<>>, f,
                                DbReturn(FALSE, EmptyDict, IF Completes(f) THEN RowsOf(db_store) ELSE {}))
        /\ db_prev' = db_store
        /\ db_ops' = db_ops + 1
        /\ db_clock' = db_clock + 1
        /\ UNCHANGED <<db_store, db_added>>
        /\ UNCHANGED <<subVars, ctxVars, runVars, normVars, ttsVars>>

\* search_dictionary_entries(search_term)
DbSearch ==
    \E t \in DbSearchTerms, f \in DbFaults :
        /\ db_ops < MaxDbOps
        /\ db_last' = Operation("search", t, <<>>, <<>>, f,
                                DbReturn(FALSE, EmptyDict,
                                         IF Completes(f) THEN RowsLike(db_store, t) ELSE {}))
        /\ db_prev' = db_store
        /\ db_ops' = db_ops + 1
        /\ db_clock' = db_clock + 1
        /\ UNCHANGED <<db_store, db_added>>
        /\ UNCHANGED <<subVars, ctxVars, runVars, normVars, ttsVars>>

DbStart == DbIdle /\ SubIdle /\ CtxIdle /\ RunIdle /\ NormIdle /\ TtsIdle

DbNext == DbAdd \/ DbDelete \/ DbLoad \/ DbList \/ DbSearch

SpecDb == DbStart /\ [][DbNext]_vars

\* ------------------------------------------------------------------------
\* Claims about the Lexicon Store
\* ------------------------------------------------------------------------

\* The last operation was an add that completed on an old_word already stored.
OverwritingAdd ==
    /\ db_last.op = "add"
    /\ db_last.fault = "none"
    /\ RowsMatch(db_prev, Strip(db_last.old_word, Whitespace))

\* C16: after any sequence of add_dictionary_entry and delete_dictionary_entry
\* calls the store holds at most one entry per old_word, and
\* load_custom_dictionary maps each present old_word to the modern_word (as
\* stored, stripped of surrounding whitespace) of the most recent successful
\* add for it; an add of an existing old_word overwrites modern_word and
\* description and refreshes updated_at while leaving created_at unchanged.
C16_LexiconUniqueness ==
    /\ \A r1, r2 \in db_store : r1.old_word = r2.old_word => r1 = r2
    /\ \A r \in db_store :
          /\ r.old_word \in DOMAIN db_added
          /\ r.modern_word = Strip(db_added[r.old_word].modern_word, Whitespace)
    /\ (db_last.op = "load" /\ db_last.fault = "none") =>
          db_last.ret.map = [k \in {r.old_word : r \in db_store} |->
                                Strip(db_added[k].modern_word, Whitespace)]
    /\ OverwritingAdd =>
          \A r \in db_store : r.old_word = Strip(db_last.old_word, Whitespace) =>
              \A old \in db_prev : old.old_word = r.old_word =>
                  /\ r.modern_word = Strip(db_last.modern_word, Whitespace)
                  /\ r.description = Strip(db_last.description, Whitespace)
                  /\ r.updated_at > old.updated_at
                  /\ r.created_at = old.created_at

\* An add has overwritten the modern_word and the description of an entry
\* made earlier, next to an entry for another old_word.
C16_Witness ==
    /\ OverwritingAdd
    /\ Cardinality(db_store) = 2
    /\ \E r \in db_store, old \in db_prev :
          /\ r.old_word = old.old_word
          /\ r.old_word = Strip(db_last.old_word, Whitespace)
          /\ r.modern_word # old.modern_word
          /\ r.description # old.description
          /\ r.created_at < r.updated_at

\* C17: when the store is unreachable or a statement fails, every Lexicon
\* Store operation reports a failure instead of raising (add and delete
\* return False, load an empty mapping, list and search an empty sequence)
\* and the stored entries are left unchanged.
C17_FailureReportedNotRaised ==
    db_last.fault # "none" =>
        /\ ~db_last.raised
        /\ db_last.ret = DbReturn(FALSE, EmptyDict, {})
        /\ db_store = db_prev

\* A delete of a stored old_word that failed for an unreachable store.
C17_Witness ==
    /\ db_last.op = "delete"
    /\ db_last.fault = "unreachable"
    /\ RowsMatch(db_store, db_last.old_word)
    /\ ~db_last.ret.ok

\* ------------------------------------------------------------------------
\* Claims about the fallback chain and the pipeline run
\* ------------------------------------------------------------------------

\* The place of a tier in the chain.
TierRank(t) ==
    CASE t = "ai" -> 1 [] t = "context" -> 2 [] t = "minimal" -> 3 [] OTHER -> 4

\* Tier t has been attempted.
Attempted(t) == \E i \in DOMAIN attempts : attempts[i] = t

\* Each tier at most once, in the order of the chain.
AttemptsInOrder ==
    \A i, j \in DOMAIN attempts : i < j => TierRank(attempts[i]) < TierRank(attempts[j])

\* The AI tier was attempted and failed: its request raised or its reply
\* could not be used.
AiTierFailed == Attempted("ai") /\ ReplyFails(reply)

\* The context-based fallback was attempted and failed: the lexicon module
\* could not be imported.
ContextTierFailed == Attempted("context") /\ ~lexicon_available

\* C18 as stated: within one get_comprehensive_translation call each tier is
\* attempted at most once in the order AI, context-based fallback, minimal
\* fallback, the language-model request is issued at most once, and a later
\* tier runs only after the preceding tier failed.
C18_LaterTierOnlyAfterFailure ==
    entry \in {"main", "gct"} =>
        /\ AttemptsInOrder
        /\ llm_calls <= 1
        /\ Attempted("context") => AiTierFailed
        /\ Attempted("minimal") => ContextTierFailed

\* C18, amended: as above, except that with use_ai false the chain starts at
\* the context-based fallback, which then runs without the AI tier having
\* been attempted.
C18_NoRetries ==
    entry \in {"main", "gct"} =>
        /\ AttemptsInOrder
        /\ llm_calls <= 1
        /\ llm_calls = (IF Attempted("ai") THEN 1 ELSE 0)
        /\ Attempted("ai") => use_ai
        /\ Attempted("context") =>
              \/ AiTierFailed
              \/ ~use_ai /\ ~Attempted("ai")
        /\ Attempted("minimal") => ContextTierFailed

\* A call of get_comprehensive_translation has gone through all three tiers,
\* with one language-model request.
C18_Witness ==
    /\ entry = "gct"
    /\ pc = "done"
    /\ attempts = <<"ai", "context", "minimal">>
    /\ llm_calls = 1
    /\ tier = "minimal"

\* C19: the pipeline is stateless between calls: the final text and the
\* changelog of a run are determined by that run's input text, its
\* configuration, the lexicon and the collaborator replies of that run
\* alone, so a later run of the session that is given what the first run was
\* given ends with the first run's results, whatever ran in between.
C19_StatelessBetweenRuns ==
    (pc = "done" /\ run_no > 1 /\ RunKey = first.key) => RunResult = first.result

\* The third run repeats the first, processes a text, and finds in
\* st.session_state the translation an earlier run left there, which the
\* first run did not find.
C19_Witness ==
    /\ pc = "done"
    /\ run_no = 3
    /\ RunKey = first.key
    /\ translation_mode = "dictionary"
    /\ processed_text.t = "str"
    /\ session.present
    /\ session.info.modernized_text # processed_text

\* The handler of lines 213-218 has run to its end in 'ai' mode: the
\* translator step was entered and st.session_state holds no translation.
AiModeHandlerRan ==
    /\ entry = "main"
    /\ translation_mode = "ai"
    /\ pc \in {"m_display", "done"}
    /\ text # <<>>
    /\ ~session.present

\* The normalizer output, or the raw text when preprocessing is disabled.
NormalizerOutput ==
    IF use_preprocessing THEN preprocess_classical_tamil(tamil_text) ELSE tamil_text

\* C20: in 'ai' mode, whenever an exception is raised anywhere in the
\* translator step (including after the translator's result has been
\* received), the final text equals Dictionary Substitution applied to the
\* normalizer output (or to the raw text when preprocessing is disabled), not
\* to any text derived from the translator.
C20_HandlerSubstitutesNormalizerOutput ==
    AiModeHandlerRan =>
        processed_text = StrVal(replace_old_tamil_words(NormalizerOutput, lexicon))

\* A run of main in 'both' mode on a text that is not blank.
BothModeRun ==
    /\ entry = "main"
    /\ translation_mode = "both"
    /\ Strip(tamil_text, Whitespace) # <<>>

\* C21: in 'both' mode the stages run in the order Normalizer (if enabled),
\* Dictionary Substitution, Meaning Translator: the translator's input is
\* exactly the dictionary-substituted normalizer output, the final text is
\* the translator's modernized_text, and if the translator step raises the
\* final text is the dictionary-substituted text.  No exception reaches the
\* handler of line 233 (get_comprehensive_translation catches what it
\* raises), so the step has never raised when the run goes on.
C21_BothModeOrder ==
    BothModeRun =>
        LET substituted == replace_old_tamil_words(NormalizerOutput, lexicon)
        IN  /\ pc \notin {"m_start", "m_translate"} => text = substituted
            /\ pc \in {"gc_start", "ai_start", "ai_call"} => processed_text = StrVal(substituted)
            /\ pc = "m_after" => exc = ""
            /\ pc \in {"m_display", "done"} =>
                  /\ processed_text = ai_result.modernized_text
                  /\ tier # "none"

\* A 'both' run has ended with the translator's text, after a normalizer
\* pass and a substitution that each changed the text.
C21_Witness ==
    /\ BothModeRun
    /\ pc = "done"
    /\ use_preprocessing
    /\ NormalizerOutput # tamil_text
    /\ text # NormalizerOutput
    /\ tier = "ai"
    /\ processed_text.t = "str"
    /\ processed_text.s # text

\* A call of the translator has returned the result of its AI stage.
AiStageSucceeded ==
    /\ entry \in {"gct", "tai"}
    /\ pc = "done"
    /\ tier = "ai"

\* The call was given a context, or computed one.
ContextSuppliedOrComputed == context_info.t = "dict"

\* translate_classical_tamil_with_ai was given its context by the caller.
ContextSupplied == entry = "tai" /\ context_info.t = "dict" /\ research_calls = 0

\* C22: a successful AI stage tags its result 'AI-powered' when no context
\* was supplied or computed and 'AI-powered with context' when context was
\* supplied, and takes confidence verbatim from the reply, defaulting to 0.8
\* when the reply has no confidence field.
C22_AiTagFollowsContext ==
    AiStageSucceeded =>
        /\ ~ContextSuppliedOrComputed => ai_result.translation_method = "AI-powered"
        /\ ContextSupplied => ai_result.translation_method = "AI-powered with context"
        /\ ai_result.confidence = IF reply.confidence.t = "absent"
                                  THEN NumVal(DefaultAIConfidence)
                                  ELSE reply.confidence

\* ------------------------------------------------------------------------
\* More claims about the Context Researcher
\* ------------------------------------------------------------------------

\* C23: the text-intrinsic word-count heuristic seeds the context field only
\* if it is still empty: when search_results already populated context, the
\* heuristic leaves that value unchanged.
C23_HeuristicKeepsSearchContext ==
    (ctx_pc = "done" /\ ctx_sr.kind = "content" /\ ctx_sr.content.ctx_kw) =>
        ctx_out.context = CtxFromSearch

\* ------------------------------------------------------------------------
\* More claims about the Meaning Translator
\* ------------------------------------------------------------------------

\* C24: the context-based fallback produces its modernized_text with the
\* Dictionary Substitution Stage: for every text and lexicon, the
\* modernized_text of _fallback_meaning_based_translation equals
\* replace_old_tamil_words applied to the same text.
C24_FallbackIsDictionaryStage ==
    tier = "context" =>
        ai_result.modernized_text = StrVal(replace_old_tamil_words(text, lexicon))

\* The context the call holds, as a result carries it: "context_info or {}".
CarriedContext == IF context_info.t = "none" THEN EmptyDictCtx ELSE context_info

\* C25 as stated: context is computed once and reused: in any single call of
\* get_comprehensive_translation or translate_classical_tamil_with_ai the
\* Context Researcher is invoked at most once, and the context_info placed in
\* the result is the one that was supplied or computed earlier in that call,
\* also when the call falls through to the context-based fallback.
C25_ResultCarriesCallContext ==
    /\ research_calls <= 1
    /\ research_calls = 1 => context_info = DictCtx(Researched(text, researcher_fails))
    /\ tier \in {"ai", "context", "minimal"} => ai_result.context_info = CarriedContext

\* C25, amended: as above for the AI stage and the context-based fallback;
\* the minimal fallback carries the context of the call when that is a
\* non-empty dict and the fixed classical defaults when the caller supplied
\* an empty one.
C25_ContextComputedOnce ==
    /\ research_calls <= 1
    /\ research_calls = 1 => context_info = DictCtx(Researched(text, researcher_fails))
    /\ tier \in {"ai", "context"} => ai_result.context_info = CarriedContext
    /\ tier = "minimal" =>
          ai_result.context_info = IF context_info.t = "dict" THEN context_info
                                   ELSE DictCtx(_fallback_classical_context)

\* get_comprehensive_translation computed a context, the language-model
\* request failed, and the context-based fallback returned that context
\* without asking the researcher again.
C25_Witness ==
    /\ entry = "gct"
    /\ pc = "done"
    /\ use_web_research
    /\ llm_calls = 1
    /\ tier = "context"
    /\ research_calls = 1
    /\ ai_result.context_info = context_info
    /\ context_info.t = "dict"

\* A call get_comprehensive_translation(text, use_ai=True, ...) has returned.
GctAiCallDone == entry = "gct" /\ pc = "done" /\ use_ai

\* C26 as stated: each tier of the chain, including the outer emergency
\* fallback (translation_method 'Emergency fallback', confidence 0.1), can
\* be forced through get_comprehensive_translation by injected collaborator
\* faults: no fault gives the AI tier, a language-model failure the
\* context-based fallback, with the lexicon unavailable as well the minimal
\* fallback, and with the Context Researcher failing as well the emergency
\* fallback.
C26_EveryTierForced ==
    GctAiCallDone =>
        /\ ~ReplyFails(reply) => tier = "ai"
        /\ (ReplyFails(reply) /\ lexicon_available) => tier = "context"
        /\ (ReplyFails(reply) /\ ~lexicon_available /\ ~researcher_fails) => tier = "minimal"
        /\ (ReplyFails(reply) /\ ~lexicon_available /\ researcher_fails) =>
              /\ tier = "emergency"
              /\ ai_result.translation_method = "Emergency fallback"
              /\ ai_result.confidence = NumVal(EmergencyFallbackConfidence)

\* C26, amended: the AI tier, the context-based fallback and the minimal
\* fallback are forced by these faults; the emergency tier is entered only
\* when an exception escapes the translator's own handling, which none of
\* the faults brings about: no exception reaches the outer handler and no
\* call returns the emergency result.
C26_TiersForcedExceptEmergency ==
    /\ GctAiCallDone =>
          /\ ~ReplyFails(reply) => tier = "ai"
          /\ (ReplyFails(reply) /\ lexicon_available) => tier = "context"
          /\ (ReplyFails(reply) /\ ~lexicon_available) => tier = "minimal"
    /\ pc = "gc_ret" => exc = ""
    /\ tier # "emergency"
    /\ ~Attempted("emergency")

\* All three faults were injected and the call returned the minimal fallback.
C26_Witness ==
    /\ GctAiCallDone
    /\ use_web_research
    /\ ReplyFails(reply)
    /\ ~lexicon_available
    /\ researcher_fails
    /\ tier = "minimal"
    /\ ai_result.confidence = NumVal(MinimalFallbackConfidence)

\* ------------------------------------------------------------------------
\* More claims about the Lexicon Store
\* ------------------------------------------------------------------------

\* The last operation was a delete that completed, called with the old_word
\* argument of the most recent successful add for stored key k, whose entry
\* was still there.
DeleteAfterAdd(k) ==
    /\ db_last.op = "delete"
    /\ db_last.fault = "none"
    /\ k \in DOMAIN db_added
    /\ db_added[k].old_word = db_last.old_word
    /\ RowsMatch(db_prev, k)

\* C27: add/delete round trip: for every old_word string w (including
\* strings with leading or trailing whitespace), after a successful
\* add_dictionary_entry(w, m, d), delete_dictionary_entry(w) returns True and
\* afterwards load_custom_dictionary contains no entry created by that add.
C27_AddDeleteRoundTrip ==
    \A k \in {r.old_word : r \in db_prev} :
        DeleteAfterAdd(k) =>
            /\ db_last.ret.ok
            /\ k \notin DOMAIN DictOf(db_store)

\* ------------------------------------------------------------------------
\* More claims about the runs of a session and about the normalizer
\* ------------------------------------------------------------------------

\* C28: after any sequence of orchestrator runs, the ai_translation_info held
\* in session state is either absent or is the translation result of the
\* most recent run; in particular after a run in 'dictionary' mode no
\* translation result of an earlier 'ai' or 'both' run remains to be read by
\* the playback section.
C28_SessionInfoIsOfLastRun ==
    (entry = "main" /\ pc = "done" /\ Strip(tamil_text, Whitespace) # <<>>) =>
        /\ session.present => (tier # "none" /\ session.info = ai_result)
        /\ translation_mode = "dictionary" => ~session.present

\* C29: one normalization pass reaches a fixed point for every input: for
\* all texts x, preprocess_classical_tamil(preprocess_classical_tamil(x))
\* equals preprocess_classical_tamil(x), i.e. no sandhi, phonetic or
\* verb-ending rule produces output that any rule matches again.
C29_NormalizerIdempotent ==
    norm_pc = "done" => norm_again = norm_out

\* C30: when get_comprehensive_translation is called with
\* use_web_research=False, the Context Researcher is never invoked during
\* that call, whichever tier produces the result, and the returned
\* context_info contains no researched context: it is empty or holds the
\* fixed defaults.
C30_NoResearchWhenDisabled ==
    (entry = "gct" /\ ~use_web_research) =>
        /\ research_calls = 0
        /\ pc = "done" =>
              ai_result.context_info \in {EmptyDictCtx, DictCtx(_fallback_classical_context)}

====
